---- MODULE Spec2Model ----
(***************************************************************************)
(* SmartFolio: the session manager (password_manager.js), the credential   *)
(* store (encryption.js, cex_manager.js, settings_manager.js, the popup    *)
(* forms) and the update orchestrator (service_worker.js), as state        *)
(* machines over the extension's storage areas.                            *)
(*                                                                         *)
(* The specifications share the variables:                                 *)
(*   SessionSpec  the session manager's API, with validateSession and      *)
(*                getMasterPassword unfolded at their await points;        *)
(*   StoreSpec    the operations that write the persisted cexAccounts      *)
(*                array, over an atomic view of the session;               *)
(*   PopupSpec    the same array as the popup's SettingsTab writes it;     *)
(*   CycleSpec    START_UPDATE and startUpdateLoop, await by await;        *)
(*   CryptoSpec   the functions of encryption.js applied to drawn inputs;  *)
(*   AdapterSpec  the exchange adapters of chain_api.js applied to the     *)
(*                responses the exchanges can give;                        *)
(*   UtilSpec     getSolanaBalance over the responses of its RPC endpoints *)
(*                and the wallet CSV functions of settings_manager.js;     *)
(*   LoadSpec     loadSettingsFromStorage over local and cloud data;       *)
(*   UnlockedSpec the store's operations while the session stays valid;    *)
(*   ChangeSpec   the store's operations with changePassword.              *)
(***************************************************************************)
EXTENDS Integers, Sequences, FiniteSets, TLC

VARIABLES
    now,            \* Date.now(), in units of 15 minutes
    passwordHash,   \* chrome.storage.local.passwordHash
    session,        \* chrome.storage.session: sessionToken, sessionExpiry, masterPassword
    call,           \* the validateSession / getMasterPassword call in flight
    last,           \* what the most recent password_manager call returned or threw
    cexAccounts,    \* chrome.storage.local.cexAccounts
    settings,       \* chrome.storage.local.settings
    wallets,        \* chrome.storage.local.wallets
    sync,           \* chrome.storage.sync: settings, wallets, cexAccounts
    form,           \* the dashboard's settings form (the AI key inputs)
    popup,          \* the popup's SettingsTab component state
    nextId,         \* stands for Date.now().toString() as an account id
    isUpdating,     \* the service worker's busy flag
    cyc,            \* the startUpdateLoop activations: where each one awaits, its locals
    btnDisabled,    \* the dashboard's btnUpdate.disabled
    resp,           \* the response to the most recent START_UPDATE
    updateWindows,  \* how many scratch screenshot windows are open
    ended,          \* how the most recent activation of startUpdateLoop ended
    crypto,         \* an application of encryption.js: its arguments and results
    adapter,        \* a call of getCexBalance: the exchange's responses, the result
    util            \* a call of getSolanaBalance or of the wallet CSV functions

sessionVars == <<now, passwordHash, session, call, last>>

storeVars == <<cexAccounts, settings, wallets, sync, form, popup, nextId>>

workerVars == <<isUpdating, cyc, btnDisabled, resp, updateWindows, ended>>

pureVars == <<crypto, adapter, util>>

vars == <<now, passwordHash, session, call, last,
          cexAccounts, settings, wallets, sync, form, popup, nextId,
          isUpdating, cyc, btnDisabled, resp, updateWindows, ended,
          crypto, adapter, util>>

(***************************************************************************)
(* Bounds of the model.                                                    *)
(***************************************************************************)
\* The clock runs from 0 to MaxTime.
MaxTime == 3

(***************************************************************************)
(* Passwords.  A password is named by its text; CharsOf gives the text's   *)
(* characters, which is what validatePasswordStrength's tests look at.     *)
(***************************************************************************)
Passwords == {"Abcdef1!", "Zyxwvu9#", "abc"}

CharsOf(pw) ==
    CASE pw = "Abcdef1!" -> <<"A", "b", "c", "d", "e", "f", "1", "!">>
      [] pw = "Zyxwvu9#" -> <<"Z", "y", "x", "w", "v", "u", "9", "#">>
      [] pw = "abc"      -> <<"a", "b", "c">>
      [] OTHER           -> <<>>

UpperChars == {"A", "Z"}
LowerChars == {"a", "b", "c", "d", "e", "f", "y", "x", "w", "v", "u"}
DigitChars == {"1", "9"}
SpecialChars == {"!", "#"}

HasCharIn(pw, S) == \E k \in 1..Len(CharsOf(pw)) : CharsOf(pw)[k] \in S

\* validatePasswordStrength(password).valid
validatePasswordStrength(pw) ==
    /\ pw # ""
    /\ Len(CharsOf(pw)) >= 8
    /\ HasCharIn(pw, UpperChars)
    /\ HasCharIn(pw, LowerChars)
    /\ HasCharIn(pw, DigitChars)
    /\ HasCharIn(pw, SpecialChars)

\* hashPassword: SHA-256, a digest that is not the password and that differs
\* for different passwords.
hashPassword(pw) == <<"sha256", pw>>

\* chrome.storage.local holds no passwordHash.
NoHash == <<>>

(***************************************************************************)
(* The session storage area.  A key that is not stored reads as undefined: *)
(* 0 for sessionToken and sessionExpiry (both are tested for truthiness    *)
(* only, and Date.now() is never 0), "" for masterPassword.                *)
(***************************************************************************)
\* SESSION_DURATION, 30 minutes, is 2 units of the model's clock.
SESSION_DURATION == 2

EmptySession == [sessionToken |-> 0, sessionExpiry |-> 0, masterPassword |-> ""]

\* The call in flight: which function, where it stands, the data its
\* validateSession() part read, and the Date.now() its expiry test saw.
NoCall == [fn |-> "idle", pc |-> "idle", token |-> 0, expiry |-> 0, checkedAt |-> 0]

\* The record of a call that has just returned: its outcome, the session
\* storage it found (before) and the clock at its return (at).  For
\* validateSession and getMasterPassword, token and expiry are the data read
\* and at is the clock at the expiry test.
ReturnedWith(fn, arg, outcome, before, token, expiry, at) ==
    [fn |-> fn, arg |-> arg, outcome |-> outcome, before |-> before,
     token |-> token, expiry |-> expiry, at |-> at]

Returned(fn, arg, outcome, before) == ReturnedWith(fn, arg, outcome, before, 0, 0, now)

NothingReturned == ReturnedWith("none", "", "", EmptySession, 0, 0, 0)

InitSession ==
    /\ now = 0
    /\ passwordHash = NoHash
    /\ session = EmptySession
    /\ call = NoCall
    /\ last = NothingReturned

\* Time passes; nothing else happens (there is no background timer).
Tick ==
    /\ now < MaxTime
    /\ now' = now + 1
    /\ UNCHANGED <<passwordHash, session, call, last>>

\* A setupPassword that stores the hash of a password it did not validate.
setupPasswordUnvalidated(pw) ==
    /\ passwordHash' = hashPassword(pw)
    /\ last' = Returned("setupPassword", pw, "ok", session)
    /\ UNCHANGED <<now, session, call>>

\* setupPassword(password)
setupPassword(pw) ==
    /\ IF ~validatePasswordStrength(pw)
       THEN /\ last' = Returned("setupPassword", pw, "throw", session)
            /\ UNCHANGED passwordHash
       ELSE /\ passwordHash' = hashPassword(pw)
            /\ last' = Returned("setupPassword", pw, "ok", session)
    /\ UNCHANGED <<now, session, call>>

\* The session createSession(password) stores when the password is right.
NewSession(pw) ==
    [sessionToken |-> 1, sessionExpiry |-> now + SESSION_DURATION, masterPassword |-> pw]

\* createSession without the comparison of the hashes.
createSessionAnyPassword(pw) ==
    /\ IF passwordHash = NoHash
       THEN /\ last' = Returned("createSession", pw, "throw", session)
            /\ UNCHANGED session
       ELSE /\ session' = NewSession(pw)
            /\ last' = Returned("createSession", pw, "ok", session)
    /\ UNCHANGED <<now, passwordHash, call>>

\* createSession(password)
createSession(pw) ==
    /\ IF passwordHash = NoHash
       THEN /\ last' = Returned("createSession", pw, "throw", session)
            /\ UNCHANGED session
       ELSE IF passwordHash # hashPassword(pw)
       THEN /\ last' = Returned("createSession", pw, "throw", session)
            /\ UNCHANGED session
       ELSE /\ session' = NewSession(pw)
            /\ last' = Returned("createSession", pw, "ok", session)
    /\ UNCHANGED <<now, passwordHash, call>>

\* clearSession()
clearSession ==
    /\ session' = EmptySession
    /\ last' = Returned("clearSession", "", "ok", session)
    /\ UNCHANGED <<now, passwordHash, call>>

\* extendSession()
extendSession ==
    /\ IF session.sessionToken # 0
       THEN session' = [session EXCEPT !.sessionExpiry = now + SESSION_DURATION]
       ELSE UNCHANGED session
    /\ last' = Returned("extendSession", "", "ok", session)
    /\ UNCHANGED <<now, passwordHash, call>>

\* changePassword(oldPassword, newPassword)
changePassword(old, new) ==
    /\ IF passwordHash # hashPassword(old)
       THEN /\ last' = Returned("changePassword", new, "throw", session)
            /\ UNCHANGED <<passwordHash, session>>
       ELSE IF ~validatePasswordStrength(new)
       THEN /\ last' = Returned("changePassword", new, "throw", session)
            /\ UNCHANGED <<passwordHash, session>>
       ELSE /\ passwordHash' = hashPassword(new)
            /\ session' = EmptySession
            /\ last' = Returned("changePassword", new, "ok", session)
    /\ UNCHANGED <<now, call>>

(***************************************************************************)
(* validateSession() and getMasterPassword(), one step per await.          *)
(***************************************************************************)
\* A caller enters validateSession().
CallValidateSession ==
    /\ call.fn = "idle"
    /\ call' = [NoCall EXCEPT !.fn = "validateSession", !.pc = "get"]
    /\ UNCHANGED <<now, passwordHash, session, last>>

\* A caller enters getMasterPassword(), which first awaits validateSession().
CallGetMasterPassword ==
    /\ call.fn = "idle"
    /\ call' = [NoCall EXCEPT !.fn = "getMasterPassword", !.pc = "get"]
    /\ UNCHANGED <<now, passwordHash, session, last>>

\* validateSession: chrome.storage.session.get(['sessionToken', 'sessionExpiry'])
ValidateGet ==
    /\ call.pc = "get"
    /\ call' = [call EXCEPT !.pc = "check",
                            !.token = session.sessionToken,
                            !.expiry = session.sessionExpiry]
    /\ UNCHANGED <<now, passwordHash, session, last>>

\* What validateSession() decides from the data it read, at time t.
SessionDataValid(token, expiry, t) == token # 0 /\ expiry # 0 /\ ~(t > expiry)

\* The expiry test with >= for >.
SessionDataExpiredAtExpiry(token, expiry, t) == token # 0 /\ expiry # 0 /\ t >= expiry

SessionDataExpired(token, expiry, t) == token # 0 /\ expiry # 0 /\ t > expiry

\* What the call in flight returns: outcome, with the data it read.
CallReturned(outcome, at) ==
    ReturnedWith(call.fn, "", outcome, session, call.token, call.expiry, at)

\* getMasterPassword() reading the password whatever validateSession() said.
AfterValidateUngated(isValid) ==
    IF call.fn = "validateSession"
    THEN /\ call' = NoCall
         /\ last' = CallReturned(IF isValid THEN "true" ELSE "false", now)
    ELSE /\ call' = [call EXCEPT !.pc = "getpw", !.checkedAt = now]
         /\ UNCHANGED last

\* The end of the validateSession() part of the call, with result isValid:
\* validateSession() returns it; getMasterPassword() returns null when it is
\* false and goes on to read the password when it is true.
AfterValidate(isValid) ==
    IF call.fn = "validateSession"
    THEN /\ call' = NoCall
         /\ last' = CallReturned(IF isValid THEN "true" ELSE "false", now)
    ELSE IF isValid
    THEN /\ call' = [call EXCEPT !.pc = "getpw", !.checkedAt = now]
         /\ UNCHANGED last
    ELSE /\ call' = NoCall
         /\ last' = CallReturned("null", now)

\* validateSession: the tests on the data read; an expired session goes on to
\* clearSession().
ValidateCheck ==
    /\ call.pc = "check"
    /\ IF SessionDataExpired(call.token, call.expiry, now)
       THEN /\ call' = [call EXCEPT !.pc = "clear", !.checkedAt = now]
            /\ UNCHANGED last
       ELSE AfterValidate(SessionDataValid(call.token, call.expiry, now))
    /\ UNCHANGED <<now, passwordHash, session>>

\* validateSession returning false for an expired session without clearing.
ValidateClearKeepsSession ==
    /\ call.pc = "clear"
    /\ last' = CallReturned(IF call.fn = "validateSession" THEN "false" ELSE "null",
                            call.checkedAt)
    /\ call' = NoCall
    /\ UNCHANGED <<now, passwordHash, session>>

\* validateSession: await clearSession(); return false
ValidateClear ==
    /\ call.pc = "clear"
    /\ session' = EmptySession
    /\ last' = CallReturned(IF call.fn = "validateSession" THEN "false" ELSE "null",
                            call.checkedAt)
    /\ call' = NoCall
    /\ UNCHANGED <<now, passwordHash>>

\* getMasterPassword: chrome.storage.session.get(['masterPassword']);
\* return data.masterPassword || null
GetMasterPasswordRead ==
    /\ call.pc = "getpw"
    /\ last' = CallReturned(IF session.masterPassword # "" THEN session.masterPassword
                                                            ELSE "null",
                            call.checkedAt)
    /\ call' = NoCall
    /\ UNCHANGED <<now, passwordHash, session>>

SessionStep ==
    \/ Tick
    \/ \E pw \in Passwords : setupPassword(pw)
    \/ \E pw \in Passwords : createSession(pw)
    \/ clearSession
    \/ extendSession
    \/ \E old, new \in Passwords : changePassword(old, new)
    \/ CallValidateSession
    \/ CallGetMasterPassword
    \/ ValidateGet
    \/ ValidateCheck
    \/ ValidateClear
    \/ GetMasterPasswordRead

(***************************************************************************)
(* Text values.  A string is a sequence of tokens: <<>> is the empty       *)
(* string, <<"s3cret">> a plaintext, and the ciphertext that                *)
(* CryptoJS.AES.encrypt(data, password) makes is the data behind the       *)
(* password it was made with.  Null is JavaScript's null.                  *)
(***************************************************************************)
Empty == <<>>

Null == <<"null">>

Falsy(v) == v = Empty \/ v = Null

Ciphertext(data, password) == <<"AES", password>> \o data

IsCiphertextUnder(v, password) == Len(v) >= 2 /\ v[1] = "AES" /\ v[2] = password

\* The number of encryptions a value went through.
RECURSIVE Layers(_)
Layers(v) == IF Len(v) >= 2 /\ v[1] = "AES" THEN 1 + Layers(SubSeq(v, 3, Len(v))) ELSE 0

\* An application of encryption.js.  garbled is the kind of bytes AES yields
\* when the text at hand is decrypted under a key it was not encrypted with.
NoCrypto ==
    [pc |-> "idle", data |-> Empty, password |-> "", password2 |-> "",
     garbled |-> "malformed", encrypted |-> Null, decrypted |-> Null,
     arg |-> Null, res |-> Null]

\* An encrypt that returns its input.
encryptIdentity(data, password) == data

\* encrypt(data, password)
encrypt(data, password) ==
    IF Falsy(data) \/ password = "" THEN Null ELSE Ciphertext(data, password)

\* The bytes of a decryption under another key, when they happen to be text.
Garbled == <<"garbled">>

\* AES-CBC with PKCS7 padding carries no integrity check: under a key the
\* text was not encrypted with (or for a text that is no ciphertext) the
\* bytes are pseudo-random.  Mostly they are no UTF-8 text ("malformed":
\* toString throws, the catch returns null) or unpad to nothing ("empty":
\* '' || null), but for some pairs they are well-formed text ("text").
WrongKeyOutcomes == {"malformed", "empty", "text"}

\* A decrypt that returns null whenever the key is not the one used.
decryptAuthenticated(encryptedData, password) ==
    IF Falsy(encryptedData) \/ password = "" THEN Null
    ELSE IF IsCiphertextUnder(encryptedData, password)
         THEN LET decrypted == SubSeq(encryptedData, 3, Len(encryptedData))
              IN  IF decrypted = Empty THEN Null ELSE decrypted
         ELSE Null

\* decrypt(encryptedData, password): `decrypted || null`, null from the catch.
decrypt(encryptedData, password) ==
    IF Falsy(encryptedData) \/ password = "" THEN Null
    ELSE IF IsCiphertextUnder(encryptedData, password)
         THEN LET decrypted == SubSeq(encryptedData, 3, Len(encryptedData))
              IN  IF decrypted = Empty THEN Null ELSE decrypted
         ELSE IF crypto.garbled = "text" THEN Garbled ELSE Null

(***************************************************************************)
(* CEX accounts and settings, and their field-level encryption.  A record  *)
(* without the isEncrypted key has isEncrypted = FALSE.                     *)
(***************************************************************************)
CexAccount(id, cexName, apiSecret, passphrase) ==
    [id |-> id, cexName |-> cexName, apiKey |-> <<"apiKey">>,
     apiSecret |-> apiSecret, passphrase |-> passphrase, isEncrypted |-> FALSE]

\* encryptCexAccount(cexAccount, password)
encryptCexAccount(a, password) ==
    IF password = "" THEN a
    ELSE [a EXCEPT
            !.apiSecret = IF Falsy(a.apiSecret) THEN @ ELSE encrypt(a.apiSecret, password),
            !.passphrase = IF Falsy(a.passphrase) THEN @ ELSE encrypt(a.passphrase, password),
            !.isEncrypted = TRUE]

\* What decryptCexAccount puts in a field: the plaintext, or the field as it
\* was when decrypt returns null.
DecryptedField(v, password) ==
    IF Falsy(v) THEN v
    ELSE IF Falsy(decrypt(v, password)) THEN v ELSE decrypt(v, password)

\* decryptCexAccount(cexAccount, password)
decryptCexAccount(a, password) ==
    IF password = "" \/ ~a.isEncrypted THEN a
    ELSE [a EXCEPT !.apiSecret = DecryptedField(a.apiSecret, password),
                   !.passphrase = DecryptedField(a.passphrase, password),
                   !.isEncrypted = FALSE]

\* encryptCexAccounts(cexAccounts, password)
encryptCexAccounts(accounts, password) ==
    IF password = "" THEN accounts
    ELSE [k \in 1..Len(accounts) |-> encryptCexAccount(accounts[k], password)]

\* decryptCexAccounts(cexAccounts, password)
decryptCexAccounts(accounts, password) ==
    IF password = "" THEN accounts
    ELSE [k \in 1..Len(accounts) |-> decryptCexAccount(accounts[k], password)]

\* An encryptSettings that encrypts the Etherscan key as well.
encryptSettingsEveryKey(st, password) ==
    IF password = "" THEN st
    ELSE [st EXCEPT
            !.openRouterApiKey = IF Falsy(@) THEN @ ELSE encrypt(@, password),
            !.siliconFlowApiKey = IF Falsy(@) THEN @ ELSE encrypt(@, password),
            !.etherscanApiKey = IF Falsy(@) THEN @ ELSE encrypt(@, password),
            !.isEncrypted = TRUE]

\* encryptSettings(settings, password)
encryptSettings(st, password) ==
    IF password = "" THEN st
    ELSE [st EXCEPT
            !.openRouterApiKey = IF Falsy(@) THEN @ ELSE encrypt(@, password),
            !.siliconFlowApiKey = IF Falsy(@) THEN @ ELSE encrypt(@, password),
            !.isEncrypted = TRUE]

\* decryptSettings(settings, password)
decryptSettings(st, password) ==
    IF password = "" \/ ~st.isEncrypted THEN st
    ELSE [st EXCEPT !.openRouterApiKey = DecryptedField(@, password),
                    !.siliconFlowApiKey = DecryptedField(@, password),
                    !.isEncrypted = FALSE]

(***************************************************************************)
(* encryption.js applied to drawn inputs (CryptoSpec).                     *)
(***************************************************************************)
\* The passwords of an application: none, and two different ones.
CryptoPasswords == {"", "Abcdef1!", "Zyxwvu9#"}

\* The texts encrypted: the empty string, plaintexts, and a text that is
\* itself a ciphertext.
Plaintexts ==
    {Empty, <<"s3cret">>, <<"s3", "cret">>, Ciphertext(<<"s3cret">>, "Abcdef1!")}

\* The field values of the objects encrypted: absent, empty, or a text.
FieldInputs == {Empty, <<"s3cret">>}

\* The CEX accounts handed to encryptCexAccount.
AccountInputs ==
    {CexAccount(id, cexName, apiSecret, passphrase) :
        id \in {1}, cexName \in {"binance", "okx"},
        apiSecret \in FieldInputs, passphrase \in FieldInputs}

\* const encrypted = encrypt(data, password)
CryptoEncrypt ==
    /\ crypto.pc = "start"
    /\ crypto' = [crypto EXCEPT !.pc = "encrypted",
                                !.encrypted = encrypt(crypto.data, crypto.password)]

\* decrypt(encrypted, password), with the password of the encryption
CryptoDecrypt ==
    /\ crypto.pc = "encrypted"
    /\ crypto' = [crypto EXCEPT !.pc = "decrypted",
                                !.decrypted = decrypt(crypto.encrypted, crypto.password)]

\* decrypt(encrypted, password2), with the other password
CryptoDecryptOther ==
    /\ crypto.pc = "encrypted"
    /\ crypto' = [crypto EXCEPT !.pc = "decryptedOther",
                                !.decrypted = decrypt(crypto.encrypted, crypto.password2)]

\* encryptCexAccount(cexAccount, password)
CryptoEncryptCexAccount(a) ==
    /\ crypto.pc = "start"
    /\ crypto' = [crypto EXCEPT !.pc = "account", !.arg = a,
                                !.res = encryptCexAccount(a, crypto.password)]

\* encryptSettings(settings, password)
CryptoEncryptSettings(st) ==
    /\ crypto.pc = "start"
    /\ crypto' = [crypto EXCEPT !.pc = "settings", !.arg = st,
                                !.res = encryptSettings(st, crypto.password)]

(***************************************************************************)
(* The exchange adapters of chain_api.js (AdapterSpec).  An adapter issues *)
(* its requests one after the other; what it returns is a function of the  *)
(* responses.  A response is the exchange's answer to one request: "ok"    *)
(* with the amount the adapter reads from it, "apiError" (HTTP 200 with a  *)
(* code other than the success code), or "httpError" (axios rejects;       *)
(* upstream is error.response.data.msg, "" when there is no response, and  *)
(* message is error.message).                                              *)
(***************************************************************************)
\* The amounts an endpoint reports are 1..MaxAmount.
MaxAmount == 2

Ok(amount) == [kind |-> "ok", amount |-> amount, upstream |-> "", message |-> ""]

ApiError == [kind |-> "apiError", amount |-> 0, upstream |-> "", message |-> ""]

HttpError(upstream, message) ==
    [kind |-> "httpError", amount |-> 0, upstream |-> upstream, message |-> message]

InvalidKey == HttpError("Invalid API-key", "Request failed with status code 401")

Timeout == HttpError("", "timeout of 10000ms exceeded")

HttpResponses == {Ok(n) : n \in 1..MaxAmount} \cup {InvalidKey, Timeout}

Responses == HttpResponses \cup {ApiError}

\* { balance, breakdown, status: 'success' }
Success(balance, breakdown) ==
    [status |-> "success", balance |-> balance, breakdown |-> breakdown, message |-> ""]

\* throw new Error(message)
Thrown(message) ==
    [status |-> "thrown", balance |-> 0, breakdown |-> <<>>, message |-> message]

NoResult == [status |-> "none", balance |-> 0, breakdown |-> <<>>, message |-> ""]

NoAdapter == [pc |-> "idle", cexName |-> "", responses |-> <<>>, result |-> NoResult]

\* What one try block adds to the total: the amount of a response with the
\* success code, nothing for any other response.
Part(r) == IF r.kind = "ok" THEN r.amount ELSE 0

\* error.response?.data?.msg || error.message
ErrorMessage(r) == IF r.upstream # "" THEN r.upstream ELSE r.message

\* getBinanceSpotBalance: the request of rs[2]
getBinanceSpotBalance(rs) ==
    IF rs[2].kind = "ok" THEN Success(rs[2].amount, <<>>)
    ELSE Thrown(ErrorMessage(rs[2]))

\* A getBinanceBalance whose catch rethrows instead of falling back.
getBinanceBalanceNoFallback(rs) ==
    IF rs[1].kind = "ok" THEN Success(rs[1].amount * Part(rs[3]), <<>>)
    ELSE Thrown(ErrorMessage(rs[1]))

\* getBinanceBalance: the wallet/balance request rs[1] in BTC, the price
\* request rs[3] (0 when it fails), the spot account as fallback.
getBinanceBalance(rs) ==
    IF rs[1].kind = "ok" THEN Success(rs[1].amount * Part(rs[3]), <<>>)
    ELSE getBinanceSpotBalance(rs)

\* An adapter that gives up at the first sub-account that fails.
getOkxBalanceAbortOnFailure(rs) ==
    IF \E k \in 1..3 : rs[k].kind = "httpError"
    THEN Thrown(ErrorMessage(rs[CHOOSE k \in 1..3 : rs[k].kind = "httpError"]))
    ELSE Success(Part(rs[1]) + Part(rs[2]) + Part(rs[3]),
                 <<Part(rs[1]), Part(rs[2]), Part(rs[3])>>)

\* getOkxBalance: trading, funding, savings
getOkxBalance(rs) ==
    LET tradingBalance == Part(rs[1])
        fundingBalance == Part(rs[2])
        savingsBalance == Part(rs[3])
    IN  Success(tradingBalance + fundingBalance + savingsBalance,
                <<tradingBalance, fundingBalance, savingsBalance>>)

\* getBybitBalance: unified, funding, earn
getBybitBalance(rs) ==
    LET unifiedBal == Part(rs[1])
        fundingBal == Part(rs[2])
        earnBal == Part(rs[3])
    IN  Success(unifiedBal + fundingBal + earnBal, <<unifiedBal, fundingBal, earnBal>>)

\* getBitgetBalance: spot, earn
getBitgetBalance(rs) ==
    LET spotBalance == Part(rs[1])
        earnBalance == Part(rs[2])
    IN  Success(spotBalance + earnBalance, <<spotBalance, earnBalance>>)

\* getBackpackBalance: the collateral request rs[1]
getBackpackBalance(rs) ==
    IF rs[1].kind = "ok" THEN Success(rs[1].amount, <<>>)
    ELSE Thrown(ErrorMessage(rs[1]))

\* cexName.toLowerCase()
toLowerCase(cexName) == IF cexName = "OKX" THEN "okx" ELSE cexName

\* getCexBalance(cexName, apiKey, apiSecret, passphrase)
getCexBalance(cexName, rs) ==
    LET cexNameLower == toLowerCase(cexName)
    IN  CASE cexNameLower = "binance" -> getBinanceBalance(rs)
          [] cexNameLower = "okx" -> getOkxBalance(rs)
          [] cexNameLower = "bybit" -> getBybitBalance(rs)
          [] cexNameLower = "bitget" -> getBitgetBalance(rs)
          [] cexNameLower = "backpack" -> getBackpackBalance(rs)
          [] OTHER -> Thrown("Unsupported CEX")

\* The requests an adapter makes with the credentials.
Endpoints(cexName) ==
    CASE toLowerCase(cexName) \in {"okx", "bybit"} -> {1, 2, 3}
      [] toLowerCase(cexName) \in {"bitget", "binance"} -> {1, 2}
      [] toLowerCase(cexName) = "backpack" -> {1}
      [] OTHER -> {}

\* The exchanges' names as the callers pass them.
CexNames == {"binance", "okx", "OKX", "bybit", "bitget", "backpack", "kraken"}

\* The responses an exchange can give to the three requests: Binance and
\* Backpack report every error with an HTTP status.
ResponsesOf(cexName) ==
    IF cexName \in {"binance", "backpack"}
    THEN [1..3 -> HttpResponses]
    ELSE [1..3 -> Responses]

\* const result = await getCexBalance(...)
CallGetCexBalance(cexName, rs) ==
    /\ adapter.pc = "idle"
    /\ adapter' = [pc |-> "returned", cexName |-> cexName, responses |-> rs,
                   result |-> getCexBalance(cexName, rs)]

\* A name argument that is not there: JavaScript's undefined.
Undefined == "undefined"

\* { success: false, error: error.message }
Failure(message) ==
    [status |-> "failure", balance |-> 0, breakdown |-> <<>>, message |-> message]

\* result.breakdown?.x || result.balance
FirstPart(result) ==
    IF result.breakdown # <<>> /\ result.breakdown[1] # 0
    THEN result.breakdown[1] ELSE result.balance

\* The breakdown testCexApi shows for an adapter's result.
TestBreakdown(result) ==
    IF result.breakdown = <<>> THEN <<result.balance>>
    ELSE <<FirstPart(result)>> \o SubSeq(result.breakdown, 2, Len(result.breakdown))

\* testCexApi(cexName, apiKey, apiSecret, passphrase): cexName.toLowerCase()
\* is evaluated before the try block is entered.
testCexApi(cexName, rs) ==
    IF cexName = Undefined
    THEN Thrown("Cannot read properties of undefined (reading 'toLowerCase')")
    ELSE LET result == getCexBalance(cexName, rs)
         IN  IF result.status = "thrown" THEN Failure(result.message)
             ELSE Success(result.balance, TestBreakdown(result))

\* const result = await testCexApi(...)
CallTestCexApi(cexName, rs) ==
    /\ adapter.pc = "idle"
    /\ adapter' = [pc |-> "tested", cexName |-> cexName, responses |-> rs,
                   result |-> testCexApi(cexName, rs)]

\* The next call.
AdapterNextCall ==
    /\ adapter.pc # "idle"
    /\ adapter' = NoAdapter

(***************************************************************************)
(* getSolanaBalance (UtilSpec).  An endpoint is a number: 0 is the RPC of  *)
(* settings.customSolanaRpc, 1, 2, ... are the entries of SOLANA_RPCS in   *)
(* their order.  The list is empty as shipped; the loop is the same over a *)
(* list that is filled in, so the list is drawn with up to MaxRpcs         *)
(* entries.                                                                *)
(***************************************************************************)
\* SOLANA_RPCS has at most MaxRpcs entries.
MaxRpcs == 2

CustomRpc == 0

NoUtil == [pc |-> "idle", arg |-> <<>>, res |-> <<>>]

\* const SOLANA_RPCS = [...]
DefaultRpcLists == {[k \in 1..n |-> k] : n \in 0..MaxRpcs}

\* What an RPC endpoint answers: a balance, response.data.error, no answer.
RpcResponses == {Ok(n) : n \in 1..MaxAmount} \cup {ApiError, Timeout}

\* error.message of a failed attempt
RpcErrorMessage(r) == IF r.kind = "apiError" THEN "RPC Error" ELSE r.message

\* The for loop from its k-th endpoint on; lastError = "" is null.
RECURSIVE TryRpcs(_, _, _, _, _)
TryRpcs(rpcsToTry, k, respOf, price, lastError) ==
    IF k > Len(rpcsToTry)
    THEN [status |-> "thrown", balance |-> 0, tried |-> rpcsToTry,
          message |-> IF lastError = "" THEN "All Solana RPCs failed" ELSE lastError]
    ELSE IF respOf[rpcsToTry[k]].kind = "ok"
         THEN [status |-> "success", balance |-> respOf[rpcsToTry[k]].amount * price,
               tried |-> SubSeq(rpcsToTry, 1, k), message |-> ""]
         ELSE TryRpcs(rpcsToTry, k + 1, respOf, price,
                      RpcErrorMessage(respOf[rpcsToTry[k]]))

\* A getSolanaBalance that puts the custom RPC last (push for unshift).
getSolanaBalanceCustomLast(a) ==
    TryRpcs(IF a.customSolanaRpc /\ a.get = "resolved"
            THEN a.SOLANA_RPCS \o <<CustomRpc>> ELSE a.SOLANA_RPCS,
            1, a.respOf, a.price, "")

\* getSolanaBalance(address): a.customSolanaRpc says whether the setting is
\* there, a.get how the read of the settings ended, a.price is getPrice's
\* result (0 when it fails).
getSolanaBalance(a) ==
    TryRpcs(IF a.customSolanaRpc /\ a.get = "resolved"
            THEN <<CustomRpc>> \o a.SOLANA_RPCS ELSE a.SOLANA_RPCS,
            1, a.respOf, a.price, "")

\* const balance = await getSolanaBalance(address)
CallGetSolanaBalance(a) ==
    /\ util.pc = "idle"
    /\ util' = [pc |-> "solana", arg |-> a, res |-> getSolanaBalance(a)]

\* The calls of getSolanaBalance.
SolanaCalls ==
    [customSolanaRpc : BOOLEAN, get : {"resolved", "rejected"},
     SOLANA_RPCS : DefaultRpcLists, respOf : [0..MaxRpcs -> RpcResponses],
     price : {0, 1}]

(***************************************************************************)
(* The wallet CSV of settings_manager.js (UtilSpec).  A text is a sequence *)
(* of tokens: "," " " and "\t" are those characters, any other token is a  *)
(* run of characters that are none of them.  The input of parseWalletInput *)
(* is the sequence of its rows.                                            *)
(***************************************************************************)
Whitespace == {" ", "\t"}

CommaOrTab == {",", "\t"}

\* The last index of the run of tokens of set S that starts at i.
RECURSIVE RunEnd(_, _, _)
RunEnd(s, i, S) ==
    IF i < Len(s) /\ s[i + 1] \in S THEN RunEnd(s, i + 1, S) ELSE i

\* row.split(/[,\t]+|\s{2,}/) from position i on, piece being the column
\* collected so far.
RECURSIVE SplitFrom(_, _, _)
SplitFrom(s, i, piece) ==
    IF i > Len(s) THEN <<piece>>
    ELSE IF s[i] \in CommaOrTab
         THEN <<piece>> \o SplitFrom(s, RunEnd(s, i, CommaOrTab) + 1, <<>>)
    ELSE IF s[i] \in Whitespace /\ i < Len(s) /\ s[i + 1] \in Whitespace
         THEN <<piece>> \o SplitFrom(s, RunEnd(s, i, Whitespace) + 1, <<>>)
    ELSE SplitFrom(s, i + 1, Append(piece, s[i]))

\* s.trim()
RECURSIVE trim(_)
trim(s) ==
    IF s = <<>> THEN s
    ELSE IF s[1] \in Whitespace THEN trim(Tail(s))
    ELSE IF s[Len(s)] \in Whitespace THEN trim(SubSeq(s, 1, Len(s) - 1))
    ELSE s

\* .filter(s => s.length > 0)
RECURSIVE NonEmpty(_)
NonEmpty(cols) ==
    IF cols = <<>> THEN <<>>
    ELSE IF cols[1] = <<>> THEN NonEmpty(Tail(cols))
    ELSE <<cols[1]>> \o NonEmpty(Tail(cols))

\* row.split(...).map(s => s.trim()).filter(s => s.length > 0)
Columns(row) ==
    LET pieces == SplitFrom(row, 1, <<>>)
    IN  NonEmpty([k \in 1..Len(pieces) |-> trim(pieces[k])])

\* One token in lower case.
LowerToken(c) ==
    CASE c = "EVM" -> "evm"
      [] c = "Cold" -> "cold"
      [] c = "Address" -> "address"
      [] OTHER -> c

\* s.toLowerCase()
lowerCase(s) == [k \in 1..Len(s) |-> LowerToken(s[k])]

HeaderNames == {<<"address">>, <<"wallet">>}

\* A wallet as parseWalletInput makes it.
CsvWallet(address, chain_type, remark, wallet_type) ==
    [address |-> address, chain_type |-> chain_type, remark |-> remark,
     wallet_type |-> wallet_type, balance |-> 0, status |-> "pending"]

\* The body of parseWalletInput's loop for rows[i].
ParsedRow(row, i) ==
    LET cols == Columns(row)
    IN  IF trim(row) = <<>> THEN <<>>
        ELSE IF i = 1 /\ Len(cols) >= 2 /\ lowerCase(cols[1]) \in HeaderNames THEN <<>>
        ELSE IF Len(cols) >= 2
             THEN <<CsvWallet(cols[1], lowerCase(cols[2]),
                              IF Len(cols) >= 3 THEN cols[3] ELSE Empty,
                              IF Len(cols) >= 4 THEN lowerCase(cols[4]) ELSE <<"hot">>)>>
             ELSE <<>>

RECURSIVE ParsedRows(_, _)
ParsedRows(rows, i) ==
    IF i > Len(rows) THEN <<>>
    ELSE ParsedRow(rows[i], i) \o ParsedRows(rows, i + 1)

\* parseWalletInput(rawInput)
parseWalletInput(rows) == ParsedRows(rows, 1)

\* `${w.address}, ${w.chain_type}, ${w.remark || ''}, ${w.wallet_type || 'hot'}`
CsvLine(w) ==
    w.address \o <<",", " ">> \o w.chain_type \o <<",", " ">> \o w.remark
        \o <<",", " ">> \o (IF w.wallet_type = Empty THEN <<"hot">> ELSE w.wallet_type)

\* walletsToCSV(wallets)
walletsToCSV(ws) == [k \in 1..Len(ws) |-> CsvLine(ws[k])]

\* The wallet records the program holds: each one came out of a parse.
CsvWallets ==
    {CsvWallet(<<"0xabc">>, chain_type, remark, wallet_type) :
        chain_type \in {<<"evm">>, <<"sol">>},
        remark \in {Empty, <<"MyWallet">>, <<"My", " ", "Wallet">>},
        wallet_type \in {<<"hot">>, <<"cold">>}}

CsvWalletLists ==
    {<<w>> : w \in CsvWallets} \cup {<<v, w>> : v \in CsvWallets, w \in CsvWallets}

\* Rows as a user types them.
TypedInputs ==
    { << <<"0xabc", ",", " ", "evm", ",", " ", "MyWallet", ",", " ", "cold">> >>,
      << <<"Address", ",", "chain">>, <<"0xabc", "\t", "EVM", "\t", "Cold">> >>,
      << <<"0xabc", " ", " ", "evm">>, <<" ">>, <<"0xdef">> >> }

\* inputWallets.value = walletsToCSV(wallets)
CallWalletsToCSV(ws) ==
    /\ util.pc = "idle"
    /\ util' = [pc |-> "csv", arg |-> ws, res |-> walletsToCSV(ws)]

\* parseWalletInput(inputWallets.value), of the text just written
CallParseWritten ==
    /\ util.pc = "csv"
    /\ util' = [util EXCEPT !.pc = "parsed", !.res = parseWalletInput(util.res)]

\* parseWalletInput of a typed text
CallParseTyped(rows) ==
    /\ util.pc = "idle"
    /\ util' = [pc |-> "typed", arg |-> rows, res |-> parseWalletInput(rows)]

\* The next call.
UtilNextCall ==
    /\ util.pc # "idle"
    /\ util' = NoUtil

(***************************************************************************)
(* The persisted state next to the session: settings, wallets and CEX      *)
(* accounts in chrome.storage.local, their mirror in chrome.storage.sync,  *)
(* the dashboard's settings form and the popup's SettingsTab.              *)
(***************************************************************************)
\* At most MaxIds accounts are ever created on this device.
MaxIds == 2

\* No value is encrypted more than MaxLayers times over.
MaxLayers == 2

\* A settings object.  timestamp is _timestamp (0: the key is not there);
\* isEncrypted = FALSE: the key is not there.  {} is NoSettings.
NoSettings ==
    [openRouterApiKey |-> Empty, siliconFlowApiKey |-> Empty, etherscanApiKey |-> Empty,
     evmSource |-> "", solSource |-> "", isEncrypted |-> FALSE, timestamp |-> 0,
     syncEnabled |-> FALSE, syncWallets |-> TRUE, syncCexApi |-> FALSE]

\* The popup's initial settings state (useState).
PopupDefaultSettings ==
    [NoSettings EXCEPT !.evmSource = "etherscan", !.solSource = "helius"]

\* A wallet record; isCex = FALSE and cexName = "": the keys are not there.
Wallet(address, chain_type) ==
    [address |-> address, chain_type |-> chain_type, balance |-> 0,
     status |-> "pending", isCex |-> FALSE, cexName |-> ""]

NoSync == [settings |-> NoSettings, wallets |-> <<>>, cexAccounts |-> <<>>]

NoPopup == [mounted |-> FALSE, settings |-> PopupDefaultSettings, cexAccounts |-> <<>>]

NoForm == [openRouterApiKey |-> Empty, siliconFlowApiKey |-> Empty]

InitStore ==
    /\ cexAccounts = <<>>
    /\ settings = NoSettings
    /\ wallets = <<>>
    /\ sync = NoSync
    /\ form = NoForm
    /\ popup = NoPopup
    /\ nextId = 1

\* startUpdateLoop takes the lowest of MaxCycles activation records, so that
\* two activations in flight are a state the model can be in.
MaxCycles == 2

Slots == 1..MaxCycles

\* The locals of an activation of startUpdateLoop that is not running.
IdleCycle ==
    [pc |-> "idle", filteredOut |-> <<>>, wallets |-> <<>>, settings |-> NoSettings, i |-> 0,
     cexAccounts |-> <<>>, updateWindow |-> FALSE, outcome |-> ""]

NotEnded == [how |-> "none", at |-> ""]

NoResponse == [seq |-> 0, status |-> "none"]

\* No function of encryption.js applied and no adapter called.
InitPure ==
    /\ crypto = NoCrypto
    /\ adapter = NoAdapter
    /\ util = NoUtil

\* let isUpdating = false; the dashboard's button enabled.
InitWorker ==
    /\ isUpdating = FALSE
    /\ cyc = [c \in Slots |-> IdleCycle]
    /\ btnDisabled = FALSE
    /\ resp = NoResponse
    /\ updateWindows = 0
    /\ ended = NotEnded

\* Nothing stored, no password set, no session, no update running.
Init == InitSession /\ InitStore /\ InitWorker /\ InitPure

\* The passwords typed into the popup: a strong one and a weak one.
PopupPasswords == {"Abcdef1!", "abc"}

\* The secrets a user types into the forms.
SecretInputs == {<<"s3cret">>}

PassphraseInputs == {<<"phrase">>}

\* What the add-account forms can hold: the exchange, the API secret and the
\* passphrase (the API key is always filled in here).
CexForms ==
    { [cexName |-> "binance", apiSecret |-> x, passphrase |-> Empty] : x \in SecretInputs }
    \cup { [cexName |-> "okx", apiSecret |-> x, passphrase |-> y] :
              x \in SecretInputs, y \in PassphraseInputs \cup {Empty} }

\* SettingsTab's add-account form (cexName starts as 'binance').
PopupCexForms == { f \in CexForms : f.cexName = "binance" }

\* What a user types into the dashboard's AI key inputs.
KeyForms == { [openRouterApiKey |-> <<"or-key">>, siliconFlowApiKey |-> Empty] }

\* The sync checkboxes collectSettingsFromForm reads: syncEnabled, syncCexApi.
SyncForms == { <<FALSE, FALSE>>, <<TRUE, TRUE>> }

\* The wallet lists typed into the dashboard's textarea.
WalletForms == { <<Wallet("0xabc", "evm")>> }

RECURSIVE MaxLayersOf(_)
MaxLayersOf(accounts) ==
    IF accounts = <<>> THEN 0
    ELSE LET a == Head(accounts)
             m == MaxLayersOf(Tail(accounts))
             x == IF Layers(a.apiSecret) > Layers(a.passphrase)
                  THEN Layers(a.apiSecret) ELSE Layers(a.passphrase)
         IN  IF x > m THEN x ELSE m

SettingsLayers(st) ==
    IF Layers(st.openRouterApiKey) > Layers(st.siliconFlowApiKey)
    THEN Layers(st.openRouterApiKey) ELSE Layers(st.siliconFlowApiKey)

WithinLayers(accounts, st) ==
    /\ MaxLayersOf(accounts) <= MaxLayers
    /\ SettingsLayers(st) <= MaxLayers

(***************************************************************************)
(* The session, seen from a handler that awaits getMasterPassword().       *)
(***************************************************************************)
\* The stored password returned without validateSession().
MasterPasswordUnchecked == session.masterPassword

\* What getMasterPassword() returns now ("" for null).
MasterPasswordNow ==
    IF SessionDataValid(session.sessionToken, session.sessionExpiry, now)
    THEN session.masterPassword
    ELSE ""

\* Session storage after getMasterPassword(): an expired session is cleared.
SessionAfterGet ==
    IF SessionDataExpired(session.sessionToken, session.sessionExpiry, now)
    THEN EmptySession
    ELSE session

\* accounts[0]?.isEncrypted on a non-empty array
FirstIsEncrypted(accounts) == Len(accounts) > 0 /\ accounts[1].isEncrypted

(***************************************************************************)
(* cex_manager.js                                                          *)
(***************************************************************************)
\* saveCexAccounts(accounts): what it stores.
saveCexAccounts(accounts, password) ==
    IF password # "" /\ Len(accounts) > 0
    THEN encryptCexAccounts(accounts, password)
    ELSE accounts

\* addCexAccount(): the form validated, the existing accounts decrypted, the
\* new one pushed, all of them saved.
addCexAccount(f) ==
    /\ ~popup.mounted
    /\ nextId <= MaxIds
    /\ LET password == MasterPasswordNow
           rejected == \/ Falsy(f.apiSecret)
                       \/ (f.cexName = "okx" /\ Falsy(f.passphrase))
           locked == FirstIsEncrypted(cexAccounts) /\ password = ""
           existing == IF FirstIsEncrypted(cexAccounts)
                       THEN decryptCexAccounts(cexAccounts, password)
                       ELSE cexAccounts
           pushed == Append(existing, CexAccount(nextId, f.cexName, f.apiSecret, f.passphrase))
       IN  IF rejected
           THEN UNCHANGED <<cexAccounts, nextId, session>>
           ELSE IF locked
           THEN /\ session' = SessionAfterGet
                /\ UNCHANGED <<cexAccounts, nextId>>
           ELSE /\ WithinLayers(saveCexAccounts(pushed, password), settings)
                /\ cexAccounts' = saveCexAccounts(pushed, password)
                /\ nextId' = nextId + 1
                /\ session' = SessionAfterGet
    /\ UNCHANGED <<now, passwordHash, call, last, settings, wallets, sync, form, popup>>

WithoutId(accounts, id) == SelectSeq(accounts, LAMBDA a : a.id # id)

\* removeCexAccount(id)
removeCexAccount(id) ==
    /\ ~popup.mounted
    /\ LET password == MasterPasswordNow
           existing == IF password # "" /\ FirstIsEncrypted(cexAccounts)
                       THEN decryptCexAccounts(cexAccounts, password)
                       ELSE cexAccounts
           kept == WithoutId(existing, id)
       IN  /\ WithinLayers(saveCexAccounts(kept, password), settings)
           /\ cexAccounts' = saveCexAccounts(kept, password)
    /\ session' = SessionAfterGet
    /\ UNCHANGED <<now, passwordHash, call, last, settings, wallets, sync, form, popup, nextId>>

(***************************************************************************)
(* settings_manager.js                                                     *)
(***************************************************************************)
\* {...settings, ...syncSettings}: the cloud's keys win; isEncrypted is a key
\* only of an encrypted object, so the local one stays when the cloud has none.
MergedSettings(local, cloud) ==
    [cloud EXCEPT !.isEncrypted = cloud.isEncrypted \/ local.isEncrypted]

\* A load in which the cloud's data win whatever the timestamps are.
LocalAfterLoadCloudAlways ==
    [settings |-> MergedSettings(settings, sync.settings),
     wallets |-> IF sync.settings.syncWallets /\ Len(sync.wallets) > 0
                 THEN sync.wallets ELSE wallets,
     cexAccounts |-> IF sync.settings.syncCexApi /\ Len(sync.cexAccounts) > 0
                     THEN sync.cexAccounts ELSE cexAccounts]

\* loadSettingsFromStorage(), up to its return: what it leaves in local storage.
LocalAfterLoad ==
    IF sync.settings.timestamp > settings.timestamp
    THEN [settings |-> MergedSettings(settings, sync.settings),
          wallets |-> IF sync.settings.syncWallets /\ Len(sync.wallets) > 0
                      THEN sync.wallets ELSE wallets,
          cexAccounts |-> IF sync.settings.syncCexApi /\ Len(sync.cexAccounts) > 0
                          THEN sync.cexAccounts ELSE cexAccounts]
    ELSE [settings |-> settings, wallets |-> wallets, cexAccounts |-> cexAccounts]

\* The settings loadSettingsFromStorage() returns.
LoadedSettings ==
    IF LocalAfterLoad.settings.isEncrypted /\ MasterPasswordNow # ""
    THEN decryptSettings(LocalAfterLoad.settings, MasterPasswordNow)
    ELSE LocalAfterLoad.settings

\* processOCRWithUI and processOCR with the default provider: the key that
\* callOpenRouterVision sends as the bearer token, out of the settings
\* loadSettingsFromStorage() returned (Empty: 'not configured' is thrown and
\* no request is made).
OcrApiKey == LoadedSettings.openRouterApiKey

\* The dashboard's loadSettings(): loadSettingsFromStorage(), then the inputs
\* filled with the keys it returned (an empty key leaves the input as it is).
loadSettings ==
    /\ ~popup.mounted
    /\ settings' = LocalAfterLoad.settings
    /\ wallets' = LocalAfterLoad.wallets
    /\ cexAccounts' = LocalAfterLoad.cexAccounts
    /\ form' = [openRouterApiKey |-> IF Falsy(LoadedSettings.openRouterApiKey)
                                     THEN form.openRouterApiKey
                                     ELSE LoadedSettings.openRouterApiKey,
                siliconFlowApiKey |-> IF Falsy(LoadedSettings.siliconFlowApiKey)
                                      THEN form.siliconFlowApiKey
                                      ELSE LoadedSettings.siliconFlowApiKey]
    /\ session' = IF LocalAfterLoad.settings.isEncrypted
                     \/ FirstIsEncrypted(LocalAfterLoad.cexAccounts)
                  THEN SessionAfterGet ELSE session
    /\ UNCHANGED <<now, passwordHash, call, last, sync, popup, nextId>>

\* The user types AI keys into the dashboard's form.
TypeKeys(k) ==
    /\ ~popup.mounted
    /\ form' = k
    /\ UNCHANGED <<now, passwordHash, session, call, last,
                   cexAccounts, settings, wallets, sync, popup, nextId>>

\* collectSettingsFromForm(), with _timestamp as saveSettingsToStorage sets it.
CollectedSettings(sy) ==
    [openRouterApiKey |-> form.openRouterApiKey,
     siliconFlowApiKey |-> form.siliconFlowApiKey,
     etherscanApiKey |-> <<"etherscan-key">>,
     evmSource |-> "etherscan", solSource |-> "helius",
     isEncrypted |-> FALSE, timestamp |-> now,
     syncEnabled |-> sy[1], syncWallets |-> TRUE, syncCexApi |-> sy[2]]

\* saveSettingsToStorage(settings, wallets): what it writes as settings.
SettingsToSave(st, password) ==
    IF password # "" /\ (~Falsy(st.openRouterApiKey) \/ ~Falsy(st.siliconFlowApiKey))
    THEN encryptSettings(st, password)
    ELSE st

\* saveSettingsToStorage(settings, wallets): what it writes as cexAccounts,
\* which it read from local storage.
CexAccountsToSave(accounts, password) ==
    IF password # "" /\ Len(accounts) > 0
    THEN encryptCexAccounts(accounts, password)
    ELSE accounts

\* The dashboard's saveSettings(): the form collected (one AI key is
\* required), then saveSettingsToStorage(settings, wallets).
saveSettings(sy, ws) ==
    /\ ~popup.mounted
    /\ now > 0
    /\ ~Falsy(form.openRouterApiKey) \/ ~Falsy(form.siliconFlowApiKey)
    /\ LET password == MasterPasswordNow
           st == SettingsToSave(CollectedSettings(sy), password)
           accounts == CexAccountsToSave(cexAccounts, password)
       IN  /\ WithinLayers(accounts, st)
           /\ settings' = st
           /\ wallets' = ws
           /\ cexAccounts' = accounts
           /\ sync' = IF st.syncEnabled
                      THEN [settings |-> st,
                            wallets |-> IF st.syncWallets THEN ws ELSE sync.wallets,
                            cexAccounts |-> IF st.syncCexApi THEN accounts
                                            ELSE sync.cexAccounts]
                      ELSE sync
    /\ session' = SessionAfterGet
    /\ UNCHANGED <<now, passwordHash, call, last, form, popup, nextId>>

(***************************************************************************)
(* The popup: SetPassword, UnlockScreen, SettingsTab.  The popup closes     *)
(* when the user turns to another page, so the dashboard's forms are used  *)
(* only while SettingsTab is not mounted, and SetPassword and UnlockScreen *)
(* are shown in place of the tabs.                                         *)
(***************************************************************************)
\* SetPassword's handleSubmit, shown while no password is set: the password
\* set up, the stored settings and accounts encrypted, a session created.
SetPasswordSubmit(pw) ==
    /\ ~popup.mounted
    /\ passwordHash = NoHash
    /\ validatePasswordStrength(pw)
    /\ LET st == IF settings # NoSettings /\ ~settings.isEncrypted
                 THEN encryptSettings(settings, pw) ELSE settings
           accounts == encryptCexAccounts(cexAccounts, pw)
       IN  /\ WithinLayers(accounts, st)
           /\ settings' = st
           /\ cexAccounts' = accounts
    /\ passwordHash' = hashPassword(pw)
    /\ session' = NewSession(pw)
    /\ UNCHANGED <<now, call, last, wallets, sync, form, popup, nextId>>

\* UnlockScreen's handleSubmit: createSession(password).
Unlock(pw) ==
    /\ ~popup.mounted
    /\ passwordHash # NoHash
    /\ session' = IF passwordHash = hashPassword(pw) THEN NewSession(pw) ELSE session
    /\ UNCHANGED <<now, passwordHash, call, last,
                   cexAccounts, settings, wallets, sync, form, popup, nextId>>

\* The browser restarts: the in-memory session storage is gone.
BrowserRestart ==
    /\ session' = EmptySession
    /\ popup' = NoPopup
    /\ form' = NoForm
    /\ UNCHANGED <<now, passwordHash, call, last,
                   cexAccounts, settings, wallets, sync, nextId>>

\* SettingsTab mounts: its state is what local storage holds, as stored.
PopupLoad ==
    /\ ~popup.mounted
    /\ popup' = [mounted |-> TRUE,
                 settings |-> IF settings # NoSettings THEN settings ELSE PopupDefaultSettings,
                 cexAccounts |-> cexAccounts]
    /\ UNCHANGED <<now, passwordHash, session, call, last,
                   cexAccounts, settings, wallets, sync, form, nextId>>

\* SettingsTab's addCexAccount: the new account joins the component's list.
PopupAddCexAccount(f) ==
    /\ popup.mounted
    /\ nextId <= MaxIds
    /\ ~Falsy(f.apiSecret)
    /\ popup' = [popup EXCEPT !.cexAccounts =
                    Append(@, CexAccount(nextId, f.cexName, f.apiSecret, f.passphrase))]
    /\ nextId' = nextId + 1
    /\ UNCHANGED <<now, passwordHash, session, call, last,
                   cexAccounts, settings, wallets, sync, form>>

\* SettingsTab's removeCexAccount
PopupRemoveCexAccount(id) ==
    /\ popup.mounted
    /\ popup' = [popup EXCEPT !.cexAccounts = WithoutId(@, id)]
    /\ UNCHANGED <<now, passwordHash, session, call, last,
                   cexAccounts, settings, wallets, sync, form, nextId>>

\* SettingsTab's OpenRouter key input
PopupTypeKey(k) ==
    /\ popup.mounted
    /\ popup' = [popup EXCEPT !.settings.openRouterApiKey = k]
    /\ UNCHANGED <<now, passwordHash, session, call, last,
                   cexAccounts, settings, wallets, sync, form, nextId>>

\* SettingsTab's handleSave: the component's state written as it is.
PopupSave ==
    /\ popup.mounted
    /\ settings' = popup.settings
    /\ cexAccounts' = popup.cexAccounts
    /\ UNCHANGED <<now, passwordHash, session, call, last,
                   wallets, sync, form, popup, nextId>>

\* The popup closes.
PopupClose ==
    /\ popup.mounted
    /\ popup' = NoPopup
    /\ UNCHANGED <<now, passwordHash, session, call, last,
                   cexAccounts, settings, wallets, sync, form, nextId>>

\* Time passes.
StoreTick ==
    /\ now < MaxTime
    /\ now' = now + 1
    /\ UNCHANGED <<passwordHash, session, call, last,
                   cexAccounts, settings, wallets, sync, form, popup, nextId>>

AccountIds == 1..MaxIds

StoreStep ==
    \/ StoreTick
    \/ \E pw \in PopupPasswords : SetPasswordSubmit(pw)
    \/ \E pw \in PopupPasswords : Unlock(pw)
    \/ BrowserRestart
    \/ \E f \in CexForms : addCexAccount(f)
    \/ \E id \in AccountIds : removeCexAccount(id)
    \/ loadSettings
    \/ \E k \in KeyForms : TypeKeys(k)
    \/ \E sy \in SyncForms, ws \in WalletForms : saveSettings(sy, ws)

StoreNext == StoreStep /\ UNCHANGED workerVars /\ UNCHANGED pureVars

\* The credential store as the dashboard and the popup's password screens
\* use it.
StoreSpec == Init /\ [][StoreNext]_vars

PopupStep ==
    \/ StoreTick
    \/ \E pw \in PopupPasswords : SetPasswordSubmit(pw)
    \/ \E pw \in PopupPasswords : Unlock(pw)
    \/ BrowserRestart
    \/ \E f \in CexForms : addCexAccount(f)
    \/ \E id \in AccountIds : removeCexAccount(id)
    \/ PopupLoad
    \/ \E f \in PopupCexForms : PopupAddCexAccount(f)
    \/ \E id \in AccountIds : PopupRemoveCexAccount(id)
    \/ \E k \in SecretInputs : PopupTypeKey(k)
    \/ PopupSave
    \/ PopupClose

PopupNext == PopupStep /\ UNCHANGED workerVars /\ UNCHANGED pureVars

\* The CEX accounts as the dashboard's account list and the popup's
\* SettingsTab use them.
PopupSpec == Init /\ [][PopupNext]_vars


(***************************************************************************)
(* The update orchestrator (service_worker.js).  startUpdateLoop is        *)
(* unfolded at its awaits: cyc[c].pc names the promise activation c waits  *)
(* for, and each action is the settling of that promise together with the  *)
(* code that runs up to the next await.  A promise of a chrome.storage     *)
(* call resolves or rejects; a balance request resolves or rejects.        *)
(***************************************************************************)
\* What a balance request over the network returns.
FetchedBalance == 7

\* What getCexBalance returns as result.balance.
CexBalance == 9

\* How a promise settles.
Settlements == {"resolved", "rejected"}

\* How captureScreenshot's promise ends: resolved with the image, rejected
\* (lastError, no dataUrl), or left unsettled once the fallback timeout has
\* removed the onUpdated listener before the tab reported 'complete'.
CaptureOutcomes == {"resolved", "rejected", "listenerRemoved"}

\* How chrome.windows.create calls back: with the window, or with undefined,
\* where the callback throws before it reaches resolve.
WindowOutcomes == {"created", "undefined"}

\* The busy test left out.
BusyNever == FALSE

\* if (isUpdating)
Busy == isUpdating

\* The activation record a call of startUpdateLoop takes.
FreeSlot ==
    CHOOSE c \in Slots :
        /\ cyc[c].pc = "idle"
        /\ \A d \in Slots : d < c => cyc[d].pc # "idle"

\* The onMessage listener on START_UPDATE: busy, or startUpdateLoop() up to
\* its first await and the answer ok.
OnStartUpdate ==
    IF Busy
    THEN /\ resp' = [seq |-> 1 - resp.seq, status |-> "busy"]
         /\ UNCHANGED <<isUpdating, cyc>>
    ELSE /\ \E c \in Slots : cyc[c].pc = "idle"
         /\ isUpdating' = TRUE
         /\ cyc' = [cyc EXCEPT ![FreeSlot] = [IdleCycle EXCEPT !.pc = "getData"]]
         /\ resp' = [seq |-> 1 - resp.seq, status |-> "ok"]

\* What the orchestrator leaves alone apart from its own state, the session
\* and the stored wallets.
restVars == <<now, passwordHash, call, last, cexAccounts, settings, sync, form, popup, nextId>>

\* The dashboard's btnUpdate click handler.
ClickUpdate ==
    /\ ~btnDisabled
    /\ btnDisabled' = TRUE
    /\ OnStartUpdate
    /\ UNCHANGED <<restVars, session, wallets, updateWindows, ended>>

\* The popup's handleRefresh.
PopupRefresh ==
    /\ OnStartUpdate
    /\ UNCHANGED <<restVars, session, wallets, updateWindows, ended, btnDisabled>>

\* settings.evmSource || 'etherscan'
EvmSourceOf(st) == IF st.evmSource = "" THEN "etherscan" ELSE st.evmSource

\* settings.solSource || 'helius'
SolSourceOf(st) == IF st.solSource = "" THEN "helius" ELSE st.solSource

\* (data.wallets || []).filter(w => !w.isCex && w.chain_type !== 'cex')
ChainWallets(ws) == SelectSeq(ws, LAMBDA w : ~w.isCex /\ w.chain_type # "cex")

UsesScreenshot(w, st) ==
    \/ w.chain_type = "evm" /\ EvmSourceOf(st) = "debank"
    \/ w.chain_type = "sol" /\ SolSourceOf(st) = "jup"

needsScreenshotWindow(ws, st) == \E k \in 1..Len(ws) : UsesScreenshot(ws[k], st)

KnownChainTypes == {"evm", "sol", "btc", "cold wallet"}

\* The activation goes on with record r.
Continue(c, r) ==
    /\ cyc' = [cyc EXCEPT ![c] = r]
    /\ UNCHANGED <<isUpdating, btnDisabled, resp, ended, updateWindows>>

\* finally without chrome.windows.remove.
FinallyKeepsWindow(c, how) ==
    /\ cyc' = [cyc EXCEPT ![c] = IdleCycle]
    /\ UNCHANGED updateWindows
    /\ isUpdating' = FALSE
    /\ ended' = [how |-> how, at |-> cyc[c].pc]
    /\ UNCHANGED resp

\* finally: the scratch window removed, the busy flag cleared.
Finally(c, how) ==
    /\ cyc' = [cyc EXCEPT ![c] = IdleCycle]
    /\ updateWindows' = IF cyc[c].updateWindow THEN updateWindows - 1 ELSE updateWindows
    /\ isUpdating' = FALSE
    /\ ended' = [how |-> how, at |-> cyc[c].pc]
    /\ UNCHANGED resp

\* An exception reaches the outer catch: it is logged, then finally.
OuterCatch(c) ==
    /\ Finally(c, "exception")
    /\ UNCHANGED btnDisabled

\* The end of the try block: UPDATE_COMPLETE is broadcast, the dashboard
\* enables its button on it, then finally.
UpdateComplete(c) ==
    /\ Finally(c, "complete")
    /\ btnDisabled' = FALSE

\* The entries the filter drops: w.isCex || w.chain_type === 'cex'.
CexWallets(ws) == SelectSeq(ws, LAMBDA w : w.isCex \/ w.chain_type = "cex")

\* await chrome.storage.local.get(['wallets', 'settings']) settles.
GetData(c, how) ==
    /\ cyc[c].pc = "getData"
    /\ IF how = "resolved"
       THEN LET ws == ChainWallets(wallets)
            IN  /\ Continue(c, [cyc[c] EXCEPT
                        !.filteredOut = CexWallets(wallets), !.wallets = ws,
                        !.settings = settings, !.i = 1,
                        !.pc = IF needsScreenshotWindow(ws, settings)
                               THEN "createWindow" ELSE "wallet"])
       ELSE OuterCatch(c)
    /\ UNCHANGED <<restVars, session, wallets>>

\* chrome.windows.create calls back inside createUpdateWindow.
CreateWindow(c, out) ==
    /\ cyc[c].pc = "createWindow"
    /\ IF out = "created"
       THEN /\ cyc' = [cyc EXCEPT ![c] = [@ EXCEPT !.updateWindow = TRUE, !.pc = "wallet"]]
            /\ updateWindows' = updateWindows + 1
            /\ UNCHANGED <<isUpdating, btnDisabled, resp, ended>>
       ELSE Continue(c, [cyc[c] EXCEPT !.pc = "unsettled"])
    /\ UNCHANGED <<restVars, session, wallets>>

\* The inner catch throwing on.
RethrowWalletError(r) == [r EXCEPT !.pc = "thrown"]

\* The inner catch: wallets[i].status = 'error', then the list is saved.
CatchWalletError(r) ==
    [r EXCEPT !.wallets[r.i].status = "error", !.pc = "saveError"]

\* A thrown record goes to the outer catch, any other one goes on.
Resume(c, r) ==
    IF r.pc = "thrown"
    THEN OuterCatch(c)
    ELSE Continue(c, r)

\* The head of the wallet loop, up to the await the wallet's chain type and
\* the balance sources lead to.
WalletLoop(c) ==
    /\ cyc[c].pc = "wallet"
    /\ LET r == cyc[c]
           w == r.wallets[r.i]
       IN  IF r.i > Len(r.wallets)
           THEN Continue(c, [r EXCEPT !.pc = "getCex", !.outcome = ""])
           ELSE IF w.chain_type \notin KnownChainTypes
           THEN Continue(c, [r EXCEPT !.i = @ + 1, !.outcome = ""])
           ELSE IF UsesScreenshot(w, r.settings)
           THEN Continue(c, [r EXCEPT !.pc = "countdown", !.outcome = ""])
           ELSE IF w.chain_type = "evm" /\ Falsy(r.settings.etherscanApiKey)
           THEN Resume(c, CatchWalletError([r EXCEPT !.outcome = "error"]))
           ELSE Continue(c, [r EXCEPT !.pc = "fetch", !.outcome = ""])
    /\ UNCHANGED <<restVars, session, wallets>>

\* The balance assigned and the CEX phase entered at once, the remaining
\* wallets left out.
WithBalanceThenCex(r, balance) ==
    [r EXCEPT !.wallets[r.i].balance = balance, !.wallets[r.i].status = "success",
              !.pc = "getCex", !.outcome = "ok"]

\* wallets[i].balance = balance; wallets[i].status = status
WithBalance(r, balance) ==
    [r EXCEPT !.wallets[r.i].balance = balance, !.wallets[r.i].status = "success",
              !.pc = "saveWallet", !.outcome = "ok"]

\* await getEtherscanBalance / getSolanaBalance / getBitcoinBalance /
\* getColdWalletBalance settles.
Fetch(c, how) ==
    /\ cyc[c].pc = "fetch"
    /\ IF how = "resolved"
       THEN Continue(c, WithBalance(cyc[c], FetchedBalance))
       ELSE Resume(c, CatchWalletError([cyc[c] EXCEPT !.outcome = "error"]))
    /\ UNCHANGED <<restVars, session, wallets>>

\* await broadcastCountdown(delay, label) is over.
Countdown(c) ==
    /\ cyc[c].pc = "countdown"
    /\ Continue(c, [cyc[c] EXCEPT !.pc = "capture"])
    /\ UNCHANGED <<restVars, session, wallets>>

\* captureDebank / captureJup: captureScreenshot's promise.
Capture(c, out) ==
    /\ cyc[c].pc = "capture"
    /\ IF out = "resolved"
       THEN Continue(c, [cyc[c] EXCEPT !.pc = "ocr"])
       ELSE IF out = "rejected"
       THEN Resume(c, CatchWalletError([cyc[c] EXCEPT !.outcome = "error"]))
       ELSE Continue(c, [cyc[c] EXCEPT !.pc = "unsettled"])
    /\ UNCHANGED <<restVars, session, wallets>>

\* await requestOCRFromDashboard(base64Image, address) settles.
Ocr(c, how) ==
    /\ cyc[c].pc = "ocr"
    /\ IF how = "resolved"
       THEN Continue(c, WithBalance(cyc[c], FetchedBalance))
       ELSE Resume(c, CatchWalletError([cyc[c] EXCEPT !.outcome = "error"]))
    /\ UNCHANGED <<restVars, session, wallets>>

\* The write left for later.
SavedWalletsLater(ws) == wallets

\* What chrome.storage.local holds as wallets once set({ wallets }) resolved.
SavedWallets(ws) == ws

\* await chrome.storage.local.set({ wallets }) after a wallet's balance
\* has been assigned.
SaveWallet(c, how) ==
    /\ cyc[c].pc = "saveWallet"
    /\ IF how = "resolved"
       THEN /\ wallets' = SavedWallets(cyc[c].wallets)
            /\ Continue(c, [cyc[c] EXCEPT !.i = @ + 1, !.pc = "wallet", !.outcome = ""])
       ELSE /\ UNCHANGED wallets
            /\ Resume(c, CatchWalletError(cyc[c]))
    /\ UNCHANGED <<restVars, session>>

\* await chrome.storage.local.set({ wallets }) in the inner catch.
SaveError(c, how) ==
    /\ cyc[c].pc = "saveError"
    /\ IF how = "resolved"
       THEN /\ wallets' = SavedWallets(cyc[c].wallets)
            /\ Continue(c, [cyc[c] EXCEPT !.i = @ + 1, !.pc = "wallet", !.outcome = ""])
       ELSE /\ UNCHANGED wallets
            /\ OuterCatch(c)
    /\ UNCHANGED <<restVars, session>>

\* await chrome.storage.local.get(['cexAccounts']) settles.
GetCex(c, how) ==
    /\ cyc[c].pc = "getCex"
    /\ IF how = "resolved"
       THEN /\ Continue(c, [cyc[c] EXCEPT
                    !.cexAccounts = cexAccounts, !.i = 1,
                    !.pc = IF FirstIsEncrypted(cexAccounts) THEN "getPassword" ELSE "cex"])
       ELSE OuterCatch(c)
    /\ UNCHANGED <<restVars, session, wallets>>

\* await getMasterPassword() returns: the batch decrypted, or emptied.
GetPassword(c) ==
    /\ cyc[c].pc = "getPassword"
    /\ Continue(c, [cyc[c] EXCEPT
            !.cexAccounts = IF MasterPasswordNow # ""
                            THEN decryptCexAccounts(@, MasterPasswordNow)
                            ELSE <<>>,
            !.pc = "cex"])
    /\ session' = SessionAfterGet
    /\ UNCHANGED <<restVars, wallets>>

\* The head of the CEX loop; past its end, the end of the try block.
CexLoop(c) ==
    /\ cyc[c].pc = "cex"
    /\ IF cyc[c].i > Len(cyc[c].cexAccounts)
       THEN UpdateComplete(c)
       ELSE Continue(c, [cyc[c] EXCEPT !.pc = "fetchCex", !.outcome = ""])
    /\ UNCHANGED <<restVars, session, wallets>>

\* cex.remark, as addCexAccount fills it when the input is left empty.
RemarkOf(cex) == cex.cexName

\* wallets.findIndex(w => w.isCex && w.remark === cex.remark && w.cexName === cex.cexName)
existingIndex(ws, cex) ==
    IF \E k \in 1..Len(ws) :
          ws[k].isCex /\ ws[k].address = RemarkOf(cex) /\ ws[k].cexName = cex.cexName
    THEN CHOOSE k \in 1..Len(ws) :
          /\ ws[k].isCex /\ ws[k].address = RemarkOf(cex) /\ ws[k].cexName = cex.cexName
          /\ \A m \in 1..(k - 1) :
                ~(ws[m].isCex /\ ws[m].address = RemarkOf(cex) /\ ws[m].cexName = cex.cexName)
    ELSE 0

\* The wallet entry of a CEX account.
cexWallet(cex, balance, status) ==
    [address |-> RemarkOf(cex), chain_type |-> "cex", balance |-> balance,
     status |-> status, isCex |-> TRUE, cexName |-> cex.cexName]

\* The try block of the CEX loop after getCexBalance resolved.
WithCexBalance(ws, cex, balance) ==
    IF existingIndex(ws, cex) > 0
    THEN [ws EXCEPT ![existingIndex(ws, cex)] = cexWallet(cex, balance, "success")]
    ELSE Append(ws, cexWallet(cex, balance, "success"))

\* The catch block of the CEX loop.
WithCexError(ws, cex) ==
    IF existingIndex(ws, cex) > 0
    THEN [ws EXCEPT ![existingIndex(ws, cex)].status = "error"]
    ELSE Append(ws, cexWallet(cex, 0, "error"))

\* await getCexBalance(...) settles.
FetchCex(c, how) ==
    /\ cyc[c].pc = "fetchCex"
    /\ LET r == cyc[c]
           cex == r.cexAccounts[r.i]
       IN  IF how = "resolved"
           THEN Continue(c, [r EXCEPT !.wallets = WithCexBalance(@, cex, CexBalance),
                                      !.pc = "saveCex", !.outcome = "ok"])
           ELSE Continue(c, [r EXCEPT !.wallets = WithCexError(@, cex),
                                      !.pc = "saveCex", !.outcome = "error"])
    /\ UNCHANGED <<restVars, session, wallets>>

\* await chrome.storage.local.set({ wallets }) in the CEX loop.
SaveCex(c, how) ==
    /\ cyc[c].pc = "saveCex"
    /\ IF how = "resolved"
       THEN /\ wallets' = SavedWallets(cyc[c].wallets)
            /\ Continue(c, [cyc[c] EXCEPT !.i = @ + 1, !.pc = "cex", !.outcome = ""])
       ELSE /\ UNCHANGED wallets
            /\ OuterCatch(c)
    /\ UNCHANGED <<restVars, session>>

\* Time passes while a cycle runs.
WorkerTick ==
    /\ now < MaxTime
    /\ now' = now + 1
    /\ UNCHANGED <<passwordHash, session, call, last, storeVars, workerVars>>

\* The promise an activation waits for settles.
CycleStep ==
    \/ \E c \in Slots, how \in Settlements : GetData(c, how)
    \/ \E c \in Slots, out \in WindowOutcomes : CreateWindow(c, out)
    \/ \E c \in Slots : WalletLoop(c)
    \/ \E c \in Slots, how \in Settlements : Fetch(c, how)
    \/ \E c \in Slots : Countdown(c)
    \/ \E c \in Slots, out \in CaptureOutcomes : Capture(c, out)
    \/ \E c \in Slots, how \in Settlements : Ocr(c, how)
    \/ \E c \in Slots, how \in Settlements : SaveWallet(c, how)
    \/ \E c \in Slots, how \in Settlements : SaveError(c, how)
    \/ \E c \in Slots, how \in Settlements : GetCex(c, how)
    \/ \E c \in Slots : GetPassword(c)
    \/ \E c \in Slots : CexLoop(c)
    \/ \E c \in Slots, how \in Settlements : FetchCex(c, how)
    \/ \E c \in Slots, how \in Settlements : SaveCex(c, how)

CycleNext ==
    /\ \/ ClickUpdate
       \/ PopupRefresh
       \/ WorkerTick
       \/ CycleStep
    /\ UNCHANGED pureVars

\* The password of the stored credentials a cycle starts from.
CyclePassword == "Abcdef1!"

\* The wallet lists a cycle starts from: what the settings form saved, and
\* the CEX entry an earlier cycle appended.
CycleWalletLists ==
    { <<>>,
      <<Wallet("0xabc", "evm")>>,
      <<Wallet("0xabc", "evm"), Wallet("So1ana", "sol")>>,
      <<Wallet("bc1q", "btc"), Wallet("0xabc", "evm")>>,
      <<Wallet("UQton", "ton"), Wallet("vault", "cold wallet")>>,
      <<Wallet("0xabc", "evm"),
        [address |-> "binance", chain_type |-> "cex", balance |-> CexBalance,
         status |-> "success", isCex |-> TRUE, cexName |-> "binance"]>> }

\* The settings a cycle starts from: none saved, API sources with and
\* without the Etherscan key, screenshot sources.
CycleSettings ==
    { NoSettings,
      [NoSettings EXCEPT !.evmSource = "etherscan", !.solSource = "helius",
                         !.etherscanApiKey = <<"etherscan-key">>, !.timestamp = 1],
      [NoSettings EXCEPT !.evmSource = "debank", !.solSource = "jup", !.timestamp = 1] }

\* The credentials a cycle starts from: no accounts; a plaintext account and
\* no password; encrypted accounts with the session unlocked, and locked.
CycleCredentials ==
    { [passwordHash |-> NoHash, session |-> EmptySession, cexAccounts |-> <<>>],
      [passwordHash |-> NoHash, session |-> EmptySession,
       cexAccounts |-> <<CexAccount(1, "binance", <<"s3cret">>, Empty)>>],
      [passwordHash |-> hashPassword(CyclePassword),
       session |-> [sessionToken |-> 1, sessionExpiry |-> SESSION_DURATION,
                    masterPassword |-> CyclePassword],
       cexAccounts |-> encryptCexAccounts(
           <<CexAccount(1, "binance", <<"s3cret">>, Empty),
             CexAccount(2, "okx", <<"s3cret">>, <<"phrase">>)>>, CyclePassword)],
      [passwordHash |-> hashPassword(CyclePassword), session |-> EmptySession,
       cexAccounts |-> encryptCexAccounts(
           <<CexAccount(1, "binance", <<"s3cret">>, Empty)>>, CyclePassword)] }

\* The service worker starts with wallets, settings and credentials stored.
InitCycle ==
    /\ now = 0
    /\ call = NoCall
    /\ last = NothingReturned
    /\ \E cr \in CycleCredentials :
          /\ passwordHash = cr.passwordHash
          /\ session = cr.session
          /\ cexAccounts = cr.cexAccounts
    /\ settings \in CycleSettings
    /\ wallets \in CycleWalletLists
    /\ sync = NoSync
    /\ form = NoForm
    /\ popup = NoPopup
    /\ nextId = 1
    /\ InitWorker
    /\ InitPure

CycleSpec == InitCycle /\ [][CycleNext]_vars

SessionNext ==
    SessionStep /\ UNCHANGED storeVars /\ UNCHANGED workerVars /\ UNCHANGED pureVars

SessionSpec == Init /\ [][SessionNext]_vars

(***************************************************************************)
(* The session manager's properties (checked under SessionSpec).           *)
(***************************************************************************)
\* C3: getMasterPassword() returns the master password only if the
\* validateSession() it makes returns true, that is, only if the session data
\* it read held a token and an expiry the clock had not passed at its test,
\* and then it returns what session storage holds as masterPassword when it
\* reads it; with no session, an expired session or a cleared session, also
\* one cleared while the call is in progress, it returns null.
C3_PasswordOnlyWhileValid ==
    last.fn = "getMasterPassword" =>
        /\ last.outcome # "null" =>
              /\ SessionDataValid(last.token, last.expiry, last.at)
              /\ last.before.masterPassword = last.outcome
        /\ ~SessionDataValid(last.token, last.expiry, last.at) => last.outcome = "null"
        /\ last.before = EmptySession => last.outcome = "null"

\* getMasterPassword() found the session valid, the session was cleared
\* before it read the password, and it returned null.
C3_Witness ==
    /\ last.fn = "getMasterPassword"
    /\ SessionDataValid(last.token, last.expiry, last.at)
    /\ last.before = EmptySession
    /\ last.outcome = "null"

\* C4: validateSession() returns true right after createSession(correct
\* password): createSession leaves a token and an expiry SESSION_DURATION
\* ahead, and validateSession() returns true for such data as long as the
\* clock has not passed the expiry; it returns false once the clock is past
\* the expiry, and false after clearSession(), which leaves no token.
C4_ValidateSessionResult ==
    /\ (last.fn = "createSession" /\ last.outcome = "ok") =>
          /\ session.sessionToken # 0
          /\ session.sessionExpiry = last.at + SESSION_DURATION
    /\ last.fn = "clearSession" => session.sessionToken = 0
    /\ last.fn = "validateSession" =>
          /\ (last.token # 0 /\ last.expiry # 0 /\ last.at <= last.expiry)
                => last.outcome = "true"
          /\ (last.token # 0 /\ last.expiry # 0 /\ last.at > last.expiry)
                => last.outcome = "false"
          /\ last.token = 0 => last.outcome = "false"

\* validateSession() returned true for a session created at this very clock
\* value.
C4_Witness ==
    /\ last.fn = "validateSession"
    /\ last.outcome = "true"
    /\ last.token # 0
    /\ last.expiry = last.at + SESSION_DURATION

\* C5: expiry is detected lazily.  A validateSession() that finds the clock
\* past the expiry it read returns false and has cleared session storage
\* (token, expiry and master password) when it returns; the passing of time
\* alone changes nothing in session storage.
C5_LazyExpiry ==
    /\ [](((last.fn = "validateSession" /\ SessionDataExpired(last.token, last.expiry, last.at))
            => (last.outcome = "false" /\ session = EmptySession)))
    /\ [][now' # now => session' = session]_vars

\* validateSession() has just returned false for an expired session, whose
\* data were still in storage when it was called.
C5_Witness ==
    /\ last.fn = "validateSession"
    /\ SessionDataExpired(last.token, last.expiry, last.at)
    /\ last.before.masterPassword # ""
    /\ session = EmptySession

\* C6: createSession(pw) stores a session if and only if hash(pw) equals the
\* stored hash; otherwise it throws and session storage is as it was.
C6_CreateSessionIffHashMatches ==
    last.fn = "createSession" =>
        /\ last.outcome = "ok" <=> passwordHash = hashPassword(last.arg)
        /\ last.outcome = "ok" =>
              session = [sessionToken |-> 1,
                         sessionExpiry |-> last.at + SESSION_DURATION,
                         masterPassword |-> last.arg]
        /\ last.outcome # "ok" => (last.outcome = "throw" /\ session = last.before)

\* createSession threw for a wrong password while a password was set, and
\* the session that existed before is untouched.
C6_Witness ==
    /\ last.fn = "createSession"
    /\ last.outcome = "throw"
    /\ passwordHash # NoHash
    /\ last.before.sessionToken # 0
    /\ session = last.before

\* C2: the persisted cexAccounts array is uniform: if its first element has
\* isEncrypted then every element has it.  SettingsTab's handleSave writes
\* the component's list as it is, so an account added there in plaintext
\* lands behind the encrypted ones.
C2_BatchUniform ==
    FirstIsEncrypted(cexAccounts) =>
        \A i \in 1..Len(cexAccounts) : cexAccounts[i].isEncrypted

\* C2: the same property in its second wording, "if any account in a batch
\* is encrypted, all must be"; without SettingsTab it holds.
C2_NoMixedBatch ==
    (\E i \in 1..Len(cexAccounts) : cexAccounts[i].isEncrypted) =>
        \A i \in 1..Len(cexAccounts) : cexAccounts[i].isEncrypted

(***************************************************************************)
(* The orchestrator's properties (checked under CycleSpec).                *)
(***************************************************************************)
\* The activations of startUpdateLoop in progress.
Running == {c \in Slots : cyc[c].pc # "idle"}

\* C1: only one update cycle runs at a time.  At no moment are two
\* activations in progress, the busy flag is set exactly while one is, and a
\* START_UPDATE that arrives while it is set is answered 'busy' and changes
\* neither the running activation nor the flag (nothing is queued, started
\* or interrupted); one that arrives while it is clear is answered 'ok' and
\* starts the one cycle.
C1_OneCycleAtATime ==
    /\ [](Cardinality(Running) <= 1 /\ (isUpdating <=> Running # {}))
    /\ [][resp' # resp =>
            IF isUpdating
            THEN resp'.status = "busy" /\ cyc' = cyc /\ isUpdating'
            ELSE resp'.status = "ok" /\ Cardinality(Running') = 1]_vars

C1_Witness ==
    /\ resp.status = "busy"
    /\ Cardinality(Running) = 1
    /\ \E c \in Slots : cyc[c].pc = "fetch"

\* The awaits of startUpdateLoop on chrome.storage.local outside the inner
\* try blocks.
StorageAwaits == {"getData", "saveError", "getCex", "saveCex"}

\* The wallet entry of the CEX account an activation is at has status 'error'.
CexEntryInError(r) ==
    LET k == existingIndex(r.wallets, r.cexAccounts[r.i])
    IN  k > 0 /\ r.wallets[k].status = "error"

\* C7: partial-failure isolation.  A balance request that fails for a wallet
\* or a CEX account leaves that item with status 'error' and the cycle at
\* the write of the wallet list; from there the cycle goes on to the next
\* item, and it ends early only if that write to storage is itself rejected.
\* No cycle ever ends by exception at a balance request.
C7_ItemFailureIsolated ==
    /\ [](\A c \in Slots : cyc[c].outcome = "error" =>
            \/ /\ cyc[c].pc = "saveError"
               /\ cyc[c].wallets[cyc[c].i].status = "error"
            \/ /\ cyc[c].pc = "saveCex"
               /\ CexEntryInError(cyc[c]))
    /\ [](ended.how = "exception" => ended.at \in StorageAwaits)
    /\ [][\A c \in Slots : (cyc[c].outcome = "error" /\ cyc'[c] # cyc[c]) =>
            \/ /\ cyc'[c].pc = (IF cyc[c].pc = "saveError" THEN "wallet" ELSE "cex")
               /\ cyc'[c].i = cyc[c].i + 1
               /\ wallets' = cyc[c].wallets
            \/ /\ cyc'[c] = IdleCycle
               /\ ended' = [how |-> "exception", at |-> cyc[c].pc]
               /\ wallets' = wallets]_vars

\* A first cycle is fetching its second wallet after its first one failed.
C7_Witness ==
    /\ ended = NotEnded
    /\ \E c \in Slots :
          /\ cyc[c].pc = "fetch"
          /\ cyc[c].i = 2
          /\ cyc[c].wallets[1].status = "error"
          /\ wallets[1].status = "error"

\* C8: every update cycle that is started ends with an UPDATE_COMPLETE
\* broadcast, whatever errors occur inside it.  An exception that reaches the
\* outer catch (a rejected chrome.storage.local call) ends the cycle without
\* the broadcast.
C8_EndsWithUpdateComplete == ended.how # "none" => ended.how = "complete"

\* C9: a cycle in flight always ends and clears the busy flag: while the
\* flag is set, the promise the cycle waits for can settle.  A capture whose
\* listener the fallback timeout removed, and a window creation whose
\* callback threw, leave a promise that never settles.
C9_InFlightCanProceed == isUpdating => ENABLED CycleStep

\* The pcs of the wallet loop.
WalletPhase == {"wallet", "fetch", "countdown", "capture", "ocr", "saveWallet", "saveError", "unsettled"}

\* C10: each wallet's result is persisted before the next wallet's fetch
\* begins.  While a cycle is at wallet i, every earlier wallet of a known
\* chain type is in chrome.storage.local exactly as the cycle left it, and
\* with its new balance if its fetch succeeded.
C10_PersistedBeforeNextWallet ==
    \A c \in Slots : cyc[c].pc \in WalletPhase =>
        \A j \in 1..(cyc[c].i - 1) :
            (j <= Len(cyc[c].wallets) /\ cyc[c].wallets[j].chain_type \in KnownChainTypes) =>
                /\ j <= Len(wallets)
                /\ wallets[j] = cyc[c].wallets[j]
                /\ wallets[j].status \in {"success", "error"}
                /\ wallets[j].status = "success" => wallets[j].balance = FetchedBalance

\* A first cycle is fetching its second wallet with the first one's new
\* balance in storage.
C10_Witness ==
    /\ ended = NotEnded
    /\ \E c \in Slots :
          /\ cyc[c].pc = "fetch"
          /\ cyc[c].i = 2
          /\ wallets[1].balance = FetchedBalance
          /\ wallets[1].status = "success"

\* The pcs of the CEX phase.
CexPhase == {"getCex", "getPassword", "cex", "fetchCex", "saveCex"}

\* C11: CEX accounts are processed strictly after all chain wallets.  An
\* activation enters the CEX phase only from the head of the wallet loop
\* with the index past the last wallet, it never returns from the CEX phase
\* to a wallet, and in a first cycle (every chain wallet stored as pending)
\* no wallet of a known chain type is still pending once the CEX phase has
\* begun.
C11_CexAfterAllWallets ==
    /\ [](\A c \in Slots : (cyc[c].pc \in CexPhase /\ ended = NotEnded) =>
            \A j \in 1..Len(cyc[c].wallets) :
                cyc[c].wallets[j].chain_type \in KnownChainTypes =>
                    cyc[c].wallets[j].status \in {"success", "error"})
    /\ [][\A c \in Slots :
            /\ (cyc'[c].pc \in CexPhase /\ cyc[c].pc \notin CexPhase) =>
                  (cyc[c].pc = "wallet" /\ cyc[c].i > Len(cyc[c].wallets))
            /\ cyc[c].pc \in CexPhase => cyc'[c].pc \in CexPhase \cup {"idle"}]_vars

\* A first cycle with two chain wallets is asking an exchange for a balance.
C11_Witness ==
    /\ ended = NotEnded
    /\ \E c \in Slots :
          /\ cyc[c].pc = "fetchCex"
          /\ Len(ChainWallets(cyc[c].wallets)) = 2
          /\ cyc[c].wallets[2].status = "success"

\* There is no valid session: no token, or the expiry has passed.
Locked == ~SessionDataValid(session.sessionToken, session.sessionExpiry, now)

\* C12: with the stored CEX accounts encrypted and no valid session when the
\* CEX phase begins, the phase is skipped and not failed.  The activation
\* that asks for the master password while locked goes on with an empty
\* account list and an unchanged wallet list (no exchange request, no entry
\* with status 'error'), and from there its next step is the end of the
\* cycle with UPDATE_COMPLETE.
C12_LockedCexPhaseSkipped ==
    /\ [][\A c \in Slots :
            (cyc[c].pc = "getPassword" /\ Locked /\ cyc'[c] # cyc[c]) =>
                /\ cyc'[c].pc = "cex"
                /\ cyc'[c].cexAccounts = <<>>
                /\ cyc'[c].wallets = cyc[c].wallets
                /\ wallets' = wallets]_vars
    /\ [][\A c \in Slots :
            (cyc[c].pc = "cex" /\ cyc[c].cexAccounts = <<>> /\ cyc'[c] # cyc[c]) =>
                /\ cyc'[c] = IdleCycle
                /\ ended'.how = "complete"
                /\ ~isUpdating'
                /\ wallets' = wallets]_vars

\* A cycle has skipped the encrypted accounts and ended with UPDATE_COMPLETE.
C12_Witness ==
    /\ FirstIsEncrypted(cexAccounts)
    /\ Locked
    /\ ended = [how |-> "complete", at |-> "cex"]
    /\ \A k \in 1..Len(wallets) : ~wallets[k].isCex
    /\ Len(wallets) > 0

(***************************************************************************)
(* The credential store's properties (checked under StoreSpec).            *)
(***************************************************************************)
\* C13: with a locked session an encrypted AI key is treated as empty by its
\* consumers: while the stored openRouterApiKey is ciphertext and there is no
\* valid session, the OCR request has no key to send.  loadSettingsFromStorage
\* returns the settings as stored when it cannot decrypt them, and processOCR
\* tests the key only for being non-empty, so the ciphertext is sent.
C13_LockedKeysTreatedAsEmpty ==
    (Locked /\ Layers(LocalAfterLoad.settings.openRouterApiKey) > 0) => Falsy(OcrApiKey)

(***************************************************************************)
(* The orchestrator's properties, continued (checked under CycleSpec).     *)
(***************************************************************************)
\* C14: the scratch screenshot window is created at most once per cycle and
\* is destroyed by the time the cycle ends, by UPDATE_COMPLETE or by
\* exception.  The open windows are exactly those of the activations that
\* created one, none is left when no cycle runs, a window is opened only
\* by an activation that has none, and an activation that has one never
\* comes back to createUpdateWindow.
C14_WindowOncePerCycle ==
    /\ [](updateWindows = Cardinality({c \in Slots : cyc[c].updateWindow}))
    /\ [](~isUpdating => updateWindows = 0)
    /\ [][updateWindows' > updateWindows =>
            \E c \in Slots : /\ cyc[c].pc = "createWindow"
                             /\ ~cyc[c].updateWindow
                             /\ cyc'[c].updateWindow
                             /\ updateWindows' = updateWindows + 1]_vars
    /\ [][\A c \in Slots : cyc[c].updateWindow => cyc'[c].pc # "createWindow"]_vars

\* A cycle that used the screenshot window has ended by exception.
C14_Witness ==
    /\ ended = [how |-> "exception", at |-> "saveError"]
    /\ settings.evmSource = "debank"
    /\ \E k \in 1..Len(wallets) : wallets[k].chain_type = "evm"
    /\ ~isUpdating
    /\ updateWindows = 0

\* The settings handed to encryptSettings.
SettingsInputs ==
    {[NoSettings EXCEPT !.openRouterApiKey = a, !.siliconFlowApiKey = b,
                        !.etherscanApiKey = e] :
        a \in FieldInputs, b \in FieldInputs, e \in {Empty, <<"etherscan-key">>}}

CryptoStep ==
    \/ CryptoEncrypt
    \/ CryptoDecrypt
    \/ CryptoDecryptOther
    \/ \E a \in AccountInputs : CryptoEncryptCexAccount(a)
    \/ \E st \in SettingsInputs : CryptoEncryptSettings(st)

CryptoNext ==
    CryptoStep /\ UNCHANGED sessionVars /\ UNCHANGED storeVars
               /\ UNCHANGED workerVars /\ UNCHANGED <<adapter, util>>

\* The arguments of an application are drawn; nothing else happens.
InitCrypto ==
    /\ InitSession
    /\ InitStore
    /\ InitWorker
    /\ adapter = NoAdapter
    /\ util = NoUtil
    /\ \E data \in Plaintexts, password \in CryptoPasswords,
          password2 \in CryptoPasswords, garbled \in WrongKeyOutcomes :
          crypto = [NoCrypto EXCEPT !.pc = "start", !.data = data,
                                    !.password = password, !.password2 = password2,
                                    !.garbled = garbled]

CryptoSpec == InitCrypto /\ [][CryptoNext]_vars

AdapterStep ==
    \/ \E cexName \in CexNames : \E rs \in ResponsesOf(cexName) :
          CallGetCexBalance(cexName, rs)
    \/ \E cexName \in CexNames \cup {Undefined} : \E rs \in ResponsesOf(cexName) :
          CallTestCexApi(cexName, rs)
    \/ AdapterNextCall

AdapterNext ==
    AdapterStep /\ UNCHANGED sessionVars /\ UNCHANGED storeVars
                /\ UNCHANGED workerVars /\ UNCHANGED <<crypto, util>>

AdapterSpec == Init /\ [][AdapterNext]_vars

(***************************************************************************)
(* LoadSpec: loadSettingsFromStorage() on a device whose local storage and *)
(* whose chrome.storage.sync were written at different times, the cloud by *)
(* another device.                                                         *)
(***************************************************************************)
\* Settings as saveSettingsToStorage wrote them at time t.
SavedSettings(key, evmSource, syncWallets, t) ==
    [openRouterApiKey |-> key, siliconFlowApiKey |-> Empty,
     etherscanApiKey |-> <<"etherscan-key">>,
     evmSource |-> evmSource, solSource |-> "helius",
     isEncrypted |-> FALSE, timestamp |-> t,
     syncEnabled |-> TRUE, syncWallets |-> syncWallets, syncCexApi |-> FALSE]

\* Local settings: none, or saved at time 1 or 3, with or without a password.
LocalSettingsInputs ==
    {NoSettings}
    \cup {SavedSettings(<<"or-key">>, "etherscan", TRUE, t) : t \in {1, 3}}
    \cup {encryptSettings(SavedSettings(<<"or-key">>, "etherscan", TRUE, t), CyclePassword) :
            t \in {1, 3}}

\* The cloud's settings: none, or saved by the other device at time 2.
CloudSettingsInputs ==
    {NoSettings}
    \cup {SavedSettings(<<"cloud-key">>, "debank", sw, 2) : sw \in BOOLEAN}
    \cup {encryptSettings(SavedSettings(<<"cloud-key">>, "debank", sw, 2), CyclePassword) :
            sw \in BOOLEAN}

InitLoad ==
    /\ now = MaxTime
    /\ call = NoCall
    /\ last = NothingReturned
    /\ \/ passwordHash = NoHash /\ session = EmptySession
       \/ /\ passwordHash = hashPassword(CyclePassword)
          /\ session \in {EmptySession,
                          [sessionToken |-> 1,
                           sessionExpiry |-> MaxTime + SESSION_DURATION,
                           masterPassword |-> CyclePassword]}
    /\ cexAccounts = <<>>
    /\ settings \in LocalSettingsInputs
    /\ wallets \in {<<>>, <<Wallet("0xabc", "evm")>>}
    /\ \E st \in CloudSettingsInputs, ws \in {<<>>, <<Wallet("0xdef", "sol")>>} :
          sync = [settings |-> st, wallets |-> ws, cexAccounts |-> <<>>]
    /\ form = NoForm
    /\ popup = NoPopup
    /\ nextId = 1
    /\ InitWorker
    /\ InitPure

LoadNext == loadSettings /\ UNCHANGED workerVars /\ UNCHANGED pureVars

LoadSpec == InitLoad /\ [][LoadNext]_vars

UtilStep ==
    \/ \E a \in SolanaCalls : CallGetSolanaBalance(a)
    \/ \E ws \in CsvWalletLists : CallWalletsToCSV(ws)
    \/ CallParseWritten
    \/ \E rows \in TypedInputs : CallParseTyped(rows)
    \/ UtilNextCall

UtilNext ==
    UtilStep /\ UNCHANGED sessionVars /\ UNCHANGED storeVars
             /\ UNCHANGED workerVars /\ UNCHANGED <<crypto, adapter>>

UtilSpec == Init /\ [][UtilNext]_vars

(***************************************************************************)
(* The credential store's properties, continued (checked under StoreSpec). *)
(***************************************************************************)
\* The AI keys of a Settings object are as its isEncrypted flag says: with
\* the flag each key that is there is ciphertext, without it none is.
KeysAsFlagged(st) ==
    IF st.isEncrypted
    THEN /\ Falsy(st.openRouterApiKey) \/ Layers(st.openRouterApiKey) > 0
         /\ Falsy(st.siliconFlowApiKey) \/ Layers(st.siliconFlowApiKey) > 0
    ELSE /\ Layers(st.openRouterApiKey) = 0
         /\ Layers(st.siliconFlowApiKey) = 0

\* C15: a Settings object is never silently mixed: the persisted settings and
\* the settings loadSettingsFromStorage returns hold ciphertext in their AI
\* keys exactly when they carry isEncrypted.  A load with the session locked
\* leaves the ciphertext in the form, and the next save stores it as if it
\* were the key, without the flag.
C15_SettingsNeverMixed == KeysAsFlagged(settings) /\ KeysAsFlagged(LoadedSettings)

C17_WrongPasswordNull ==
    (/\ crypto.pc = "decryptedOther"
     /\ crypto.password2 # crypto.password
     /\ IsCiphertextUnder(crypto.encrypted, crypto.password)) =>
        crypto.decrypted = Null

SecretFields == {"apiSecret", "passphrase", "openRouterApiKey", "siliconFlowApiKey"}

RECURSIVE SumOfSucceeding(_, _)
SumOfSucceeding(rs, n) ==
    IF n = 0 THEN 0
    ELSE SumOfSucceeding(rs, n - 1) + (IF rs[n].kind = "ok" THEN rs[n].amount ELSE 0)

MultiEndpointAdapters == {"okx", "bybit", "bitget"}

\* C19: when a sub-account endpoint of OKX, Bybit or Bitget fails, the adapter
\* returns status 'success' with a total equal to the sum of the succeeding
\* sub-accounts only, and throws no error.
C19_PartialFailureTolerated ==
    (/\ adapter.pc = "returned"
     /\ toLowerCase(adapter.cexName) \in MultiEndpointAdapters
     /\ \E k \in Endpoints(adapter.cexName) : adapter.responses[k].kind # "ok") =>
        /\ adapter.result.status = "success"
        /\ adapter.result.balance =
              SumOfSucceeding(adapter.responses, Cardinality(Endpoints(adapter.cexName)))

C19_Witness ==
    /\ adapter.pc = "returned"
    /\ adapter.cexName = "okx"
    /\ adapter.responses = <<Ok(1), Ok(2), Timeout>>
    /\ adapter.result.status = "success"
    /\ adapter.result.balance = 3

\* C20: every adapter throws an error carrying the upstream message when the
\* exchange rejects the credentials (every request it makes with them is
\* answered with the HTTP error), rather than returning status 'success'.
\* OKX, Bybit and Bitget catch the error of each request and return a
\* balance of 0 with status 'success'.
C20_ErrorsThrown ==
    (/\ adapter.pc = "returned"
     /\ Endpoints(adapter.cexName) # {}
     /\ \A k \in Endpoints(adapter.cexName) : adapter.responses[k] = InvalidKey) =>
        /\ adapter.result.status = "thrown"
        /\ adapter.result.message = "Invalid API-key"

\* C21: when Binance's consolidated wallet/balance request fails,
\* getBinanceBalance returns what the spot-account computation gives: its
\* balance with status 'success' when the spot request succeeds, its error
\* (not the consolidated endpoint's) when it fails too.
C21_BinanceFallsBackToSpot ==
    (/\ adapter.pc = "returned"
     /\ adapter.cexName = "binance"
     /\ adapter.responses[1].kind # "ok") =>
        IF adapter.responses[2].kind = "ok"
        THEN /\ adapter.result.status = "success"
             /\ adapter.result.balance = adapter.responses[2].amount
        ELSE /\ adapter.result.status = "thrown"
             /\ adapter.result.message =
                   (IF adapter.responses[2].upstream # ""
                    THEN adapter.responses[2].upstream
                    ELSE adapter.responses[2].message)

C21_Witness ==
    /\ adapter.pc = "returned"
    /\ adapter.cexName = "binance"
    /\ adapter.responses[1] = InvalidKey
    /\ adapter.responses[2] = Ok(2)
    /\ adapter.result.status = "success"
    /\ adapter.result.balance = 2

\* C22: testCexApi never throws: for every input, an unsupported or missing
\* exchange name included, the caller gets a result, {success: false, error}
\* for every error.  cexName.toLowerCase() stands before the try block, so a
\* name that is not there makes the call throw.
C22_TestNeverThrows ==
    adapter.pc = "tested" => adapter.result.status \in {"success", "failure"}

(***************************************************************************)
(* The properties of getSolanaBalance and the wallet CSV (UtilSpec).       *)
(***************************************************************************)
\* The endpoints a call of getSolanaBalance has: the custom RPC when the
\* setting is there and was read, and the entries of SOLANA_RPCS.
RpcsAvailable(a) ==
    (IF a.customSolanaRpc /\ a.get = "resolved" THEN {CustomRpc} ELSE {})
        \cup {a.SOLANA_RPCS[k] : k \in 1..Len(a.SOLANA_RPCS)}

\* C23: getSolanaBalance tries its endpoints in order, the custom RPC first
\* when one is set, then the default ones; it goes on to the next endpoint
\* when one fails, returns on the first success, and throws only if every
\* endpoint failed.
C23_SolanaRpcFallback ==
    util.pc = "solana" =>
        LET a == util.arg
            tried == util.res.tried
        IN  /\ \A j \in 1..Len(tried) : tried[j] \in RpcsAvailable(a)
            /\ (CustomRpc \in RpcsAvailable(a) /\ tried # <<>>) => tried[1] = CustomRpc
            /\ \A j \in 2..Len(tried) : tried[j] > tried[j - 1]
            /\ \A e \in RpcsAvailable(a) :
                  (\E j \in 1..Len(tried) : tried[j] > e) =>
                      \E j \in 1..Len(tried) : tried[j] = e
            /\ \A j \in 1..(Len(tried) - 1) : a.respOf[tried[j]].kind # "ok"
            /\ util.res.status = "success" =>
                  /\ tried # <<>>
                  /\ a.respOf[tried[Len(tried)]].kind = "ok"
                  /\ util.res.balance = a.respOf[tried[Len(tried)]].amount * a.price
            /\ util.res.status = "thrown" <=>
                  \A e \in RpcsAvailable(a) : a.respOf[e].kind # "ok"
            /\ util.res.status \in {"success", "thrown"}

C23_Witness ==
    /\ util.pc = "solana"
    /\ util.arg.customSolanaRpc /\ util.arg.get = "resolved"
    /\ util.arg.respOf[CustomRpc] = Timeout
    /\ util.arg.respOf[1] = ApiError
    /\ util.arg.respOf[2] = Ok(2)
    /\ util.arg.price = 1
    /\ util.res.tried = <<0, 1, 2>>
    /\ util.res.status = "success"
    /\ util.res.balance = 2

(***************************************************************************)
(* The load path's merge (checked under LoadSpec, whose steps are loads).  *)
(***************************************************************************)
\* The keys of a settings object other than the isEncrypted mark.
SettingsKeys == DOMAIN NoSettings \ {"isEncrypted"}

\* The settings a load leaves are the cloud's, key by key.
CloudSettingsAdopted ==
    \A f \in SettingsKeys : settings'[f] = sync.settings[f]

\* C24 as stated: when the cloud's _timestamp is greater than the local one
\* the load adopts the cloud settings and, when syncWallets !== false, the
\* cloud wallets; otherwise local settings and wallets stay.  An empty cloud
\* wallet list is not adopted.
C24_LastWriteWins ==
    [][IF sync.settings.timestamp > settings.timestamp
       THEN /\ CloudSettingsAdopted
            /\ sync.settings.syncWallets => wallets' = sync.wallets
       ELSE settings' = settings /\ wallets' = wallets]_vars

\* C24, amended: with a greater cloud _timestamp the load adopts every key of
\* the cloud settings and, when syncWallets !== false and the cloud wallet
\* list is not empty, the cloud wallets (otherwise the local wallets stay);
\* with a local _timestamp that is greater or equal, local settings and
\* wallets are retained unchanged.
C24_LastWriteWinsNonEmpty ==
    [][IF sync.settings.timestamp > settings.timestamp
       THEN /\ CloudSettingsAdopted
            /\ wallets' = IF sync.settings.syncWallets /\ sync.wallets # <<>>
                          THEN sync.wallets ELSE wallets
       ELSE settings' = settings /\ wallets' = wallets]_vars

\* A load has adopted the cloud's settings (time 2) and wallets.
C24_Witness ==
    /\ settings.timestamp = 2
    /\ settings.evmSource = "debank"
    /\ wallets = <<Wallet("0xdef", "sol")>>
    /\ sync.wallets = wallets
    /\ form.openRouterApiKey = <<"cloud-key">>

(***************************************************************************)
(* The session manager's properties, continued (checked under SessionSpec).*)
(***************************************************************************)
\* C25 as stated: starting from NoPasswordSet, setupPassword(pw) stores the
\* hash and leaves the session Unlocked.  setupPassword writes the hash only.
C25_SetupPasswordUnlocks ==
    [][(passwordHash = NoHash /\ passwordHash' # NoHash) =>
          SessionDataValid(session'.sessionToken, session'.sessionExpiry, now')]_vars

\* C25, amended: starting from NoPasswordSet (where there is no session),
\* setupPassword(pw) with a password that passes the strength check stores
\* the one-way hash and leaves session storage as it was; the createSession(pw)
\* that the set-password flow calls next leaves the session Unlocked, so that
\* validateSession() returns true afterwards.
C25_SetupThenCreateUnlocks ==
    /\ [](passwordHash = NoHash => session = EmptySession)
    /\ [][(passwordHash = NoHash /\ passwordHash' # NoHash) =>
             /\ last'.fn = "setupPassword"
             /\ last'.outcome = "ok"
             /\ validatePasswordStrength(last'.arg)
             /\ passwordHash' = hashPassword(last'.arg)
             /\ passwordHash' # last'.arg
             /\ session' = session]_vars
    /\ [][(/\ last.fn = "setupPassword" /\ last.outcome = "ok"
           /\ last'.fn = "createSession" /\ last'.arg = last.arg) =>
             /\ last'.outcome = "ok"
             /\ session'.masterPassword = last.arg
             /\ SessionDataValid(session'.sessionToken, session'.sessionExpiry, now')]_vars

\* The first session, created at time 0 right after the password was set.
C25_Witness ==
    /\ now = 0
    /\ last.fn = "createSession"
    /\ last.outcome = "ok"
    /\ last.before = EmptySession
    /\ passwordHash = hashPassword(last.arg)
    /\ SessionDataValid(session.sessionToken, session.sessionExpiry, now)

\* The parse gave back the wallets that were written.
ParsedAsWritten ==
    /\ Len(util.res) = Len(util.arg)
    /\ \A k \in 1..Len(util.arg) :
          /\ util.res[k].address = util.arg[k].address
          /\ util.res[k].chain_type = util.arg[k].chain_type
          /\ util.res[k].remark = util.arg[k].remark
          /\ util.res[k].wallet_type = util.arg[k].wallet_type
          /\ util.res[k].balance = 0
          /\ util.res[k].status = "pending"

\* C26: wallet CSV round trip: for every wallet record, the remark of which
\* may be empty, parsing the line walletsToCSV writes yields a record with the
\* same address, chain_type, remark and wallet_type, balance 0 and status
\* 'pending'.  The empty column of an empty remark is filtered out, and the
\* wallet_type moves into the remark.
C26_CsvRoundTrip == util.pc = "parsed" => ParsedAsWritten

\* The round trip of wallets that all have a remark.
C26_CsvRoundTripWithRemark ==
    (util.pc = "parsed" /\ \A k \in 1..Len(util.arg) : util.arg[k].remark # Empty) =>
        ParsedAsWritten

\* The specification's example line.
C26_TypedExample ==
    (util.pc = "typed" /\ util.arg[1][1] = "0xabc" /\ Len(util.arg) = 1) =>
        util.res = <<CsvWallet(<<"0xabc">>, <<"evm">>, <<"MyWallet">>, <<"cold">>)>>

\* ---------------------------------------------------------------------
\* The credential store while the session stays unlocked: the set-password
\* screen, the CEX account form and the settings form, with no browser
\* restart and with the clock kept short of the session's expiry.
UnlockedStep ==
    \/ StoreTick /\ (passwordHash # NoHash => ~Locked')
    \/ \E pw \in PopupPasswords : SetPasswordSubmit(pw)
    \/ /\ ~Locked
       /\ \/ \E f \in CexForms : addCexAccount(f)
          \/ \E id \in AccountIds : removeCexAccount(id)
          \/ loadSettings
          \/ \E k \in KeyForms : TypeKeys(k)
          \/ \E sy \in SyncForms, ws \in WalletForms : saveSettings(sy, ws)

UnlockedNext == UnlockedStep /\ UNCHANGED workerVars /\ UNCHANGED pureVars

UnlockedSpec == Init /\ [][UnlockedNext]_vars

\* The secrets the forms can have been given.
EnteredSecrets == SecretInputs \cup PassphraseInputs \cup { k.openRouterApiKey : k \in KeyForms }

OnceDecrypted(v) == Falsy(v) \/ decrypt(v, session.masterPassword) \in EnteredSecrets

\* C27: once a master password is set and while the session is unlocked, one
\* decryptCexAccounts / decryptSettings under the master password returns the
\* entered apiSecret, passphrase and AI keys of everything persisted.
C27_EncryptedExactlyOnce ==
    (passwordHash # NoHash /\ ~Locked) =>
        /\ \A k \in 1..Len(cexAccounts) :
              /\ OnceDecrypted(cexAccounts[k].apiSecret)
              /\ OnceDecrypted(cexAccounts[k].passphrase)
        /\ OnceDecrypted(settings.openRouterApiKey)
        /\ OnceDecrypted(settings.siliconFlowApiKey)

\* C28: a session the clock has passed (sessionExpiry < now) becomes valid
\* again only by a successful createSession; extendSession() on it does not
\* make validateSession() return true or getMasterPassword() return the
\* password.
C28_ExpiredStaysExpired ==
    [][(/\ SessionDataExpired(session.sessionToken, session.sessionExpiry, now)
        /\ SessionDataValid(session'.sessionToken, session'.sessionExpiry, now'))
       => (last'.fn = "createSession" /\ last'.outcome = "ok")]_vars

\* C29: when a cycle ends after skipping the CEX phase for want of a master
\* password (accounts encrypted, session locked), every isCex entry that was
\* in the persisted wallet list when the cycle read it is still in the
\* persisted list, with its balance.
C29_CexEntriesSurviveSkip ==
    [][\A c \in Slots :
          (/\ cyc[c].pc = "cex" /\ cyc[c].cexAccounts = <<>>
           /\ FirstIsEncrypted(cexAccounts) /\ Locked
           /\ cyc'[c] = IdleCycle /\ ended'.how = "complete") =>
              \A k \in 1..Len(cyc[c].filteredOut) :
                  \E j \in 1..Len(wallets') : wallets'[j] = cyc[c].filteredOut[k]]_vars

\* ---------------------------------------------------------------------
\* The credential store with a change of the master password: the password
\* set, accounts and keys saved, changePassword(old, new), the unlock screen
\* given the new password, the settings loaded.
StrongPasswords == { pw \in Passwords : validatePasswordStrength(pw) }

ChangeStep ==
    \/ StoreTick
    \/ \E pw \in PopupPasswords : SetPasswordSubmit(pw)
    \/ \E f \in PopupCexForms : addCexAccount(f)
    \/ \E k \in KeyForms : TypeKeys(k)
    \/ \E sy \in SyncForms, ws \in WalletForms : saveSettings(sy, ws)
    \/ \E old \in PopupPasswords, new \in StrongPasswords \ PopupPasswords :
          changePassword(old, new) /\ UNCHANGED storeVars
    \/ \E pw \in StrongPasswords : Unlock(pw)
    \/ loadSettings

ChangeNext == ChangeStep /\ UNCHANGED workerVars /\ UNCHANGED pureVars

ChangeSpec == Init /\ [][ChangeNext]_vars

\* The accounts loadSettingsFromStorage() returns.
LoadedCexAccounts ==
    IF FirstIsEncrypted(LocalAfterLoad.cexAccounts) /\ MasterPasswordNow # ""
    THEN decryptCexAccounts(LocalAfterLoad.cexAccounts, MasterPasswordNow)
    ELSE LocalAfterLoad.cexAccounts

Recovered(v) == Falsy(v) \/ v \in EnteredSecrets

\* C30: after a successful changePassword(old, new) and an unlock with the
\* new password, loading returns the entered plaintext apiSecret, passphrase
\* and AI keys, and no ciphertext in a record that does not carry isEncrypted.
C30_SecretsSurviveChange ==
    (/\ last.fn = "changePassword" /\ last.outcome = "ok"
     /\ ~Locked /\ session.masterPassword = last.arg) =>
        /\ \A k \in 1..Len(LoadedCexAccounts) :
              /\ Recovered(LoadedCexAccounts[k].apiSecret)
              /\ Recovered(LoadedCexAccounts[k].passphrase)
        /\ Recovered(LoadedSettings.openRouterApiKey)
        /\ Recovered(LoadedSettings.siliconFlowApiKey)

====
